---------------------------- MODULE Spec2Model ----------------------------
(***************************************************************************)
(* Model of the search-tree core of src/mcts/node.h and src/mcts/node.cc:  *)
(* the two-tier Node / LowNode graph, the visit accounting, the Edge       *)
(* iterator, NodeTree re-rooting and the NodeGarbageCollector worker.      *)
(*                                                                         *)
(* Heap objects are records indexed by small identifiers (addresses); 0 is *)
(* the null pointer.  A destroyed object's identifier is free again and    *)
(* may be handed out by a later allocation, as with the C++ allocator.     *)
(* wl_, d_ and m_ are exact rationals <<p, q>> (q = 0 encodes inf / NaN);  *)
(* floating-point rounding and the sign of zero are not modelled.          *)
(***************************************************************************)
EXTENDS Integers, Sequences, FiniteSets, TLC

\* ------------------------------------------------------------------------
\* Bounds of the model
\* ------------------------------------------------------------------------
MaxNodes == 4
MaxLows == 2
MaxEdges == 2
MaxVisits == 3
MaxMoves == 2
MaxParents == 2
MaxResets == 3
MaxTerminals == 1

NodeIds == 1..MaxNodes
LowIds == 1..MaxLows
Null == 0
Moves == 0..(MaxEdges - 1)
Multivisits == {1, 2}

\* ------------------------------------------------------------------------
\* Exact arithmetic standing for float / double
\* ------------------------------------------------------------------------
Abs(x) == IF x < 0 THEN -x ELSE x

Sgn(x) == IF x < 0 THEN -1 ELSE IF x > 0 THEN 1 ELSE 0

RECURSIVE GCD(_, _)
GCD(a, b) == IF b = 0 THEN a ELSE GCD(b, a % b)

RNorm(p, q) ==
  IF q = 0 THEN <<Sgn(p), 0>>
  ELSE LET g == GCD(Abs(p), Abs(q))
           s == IF q < 0 THEN -1 ELSE 1
       IN <<(s * p) \div g, (s * q) \div g>>

RInt(i) == <<i, 1>>
NaN == <<0, 0>>
RAdd(a, b) ==
  IF a[2] = 0 /\ b[2] = 0
    THEN (IF a = b THEN a ELSE NaN)
    ELSE LET g == GCD(a[2], b[2])
         IN RNorm(a[1] * (b[2] \div g) + b[1] * (a[2] \div g),
                  (a[2] \div g) * b[2])
RNeg(a) == <<-a[1], a[2]>>
RSub(a, b) == RAdd(a, RNeg(b))
RMulInt(a, k) == RNorm(a[1] * k, a[2])
RDivInt(a, k) == RNorm(a[1], a[2] * k)

\* 2^24: a float has 24 significand bits.
FloatSignificand == 16777216

Pow2(k) == 2^k
\* floor(log2(n)) for an integer n >= 1.
Log2(n) == CHOOSE j \in 0..30 : Pow2(j) <= n /\ (j = 30 \/ n < Pow2(j + 1))
\* floor(log2(r)) for a fraction r > 0 in lowest terms.
FloorLog2(r) ==
  IF r[1] >= r[2] THEN Log2(r[1] \div r[2])
  ELSE IF r[1] = 1 /\ Pow2(Log2(r[2])) = r[2] THEN -Log2(r[2])
  ELSE -(Log2(r[2] \div r[1]) + 1)
\* The largest 2^j, j <= k, that divides n.
Pow2Part(n, k) ==
  CHOOSE g \in {Pow2(j) : j \in 0..k} : n % g = 0 /\ (g = Pow2(k) \/ n % (2 * g) # 0)
\* r * 2^k for a fraction r > 0 in lowest terms.
Scaled(r, k) ==
  IF k >= 0
    THEN <<r[1] * (Pow2(k) \div Pow2Part(r[2], k)), r[2] \div Pow2Part(r[2], k)>>
    ELSE <<r[1] \div Pow2Part(r[1], -k), r[2] * (Pow2(-k) \div Pow2Part(r[1], -k))>>

\* The k with 2^23 <= r * 2^k < 2^24, for r > 0.
Exponent(r) == Log2(FloatSignificand) - 1 - FloorLog2(r)

\* Round to nearest integer, ties to even, for r >= 0.
RoundEven(r) ==
  IF 2 * (r[1] % r[2]) > r[2] THEN (r[1] \div r[2]) + 1
  ELSE IF 2 * (r[1] % r[2]) = r[2] THEN (r[1] \div r[2]) + ((r[1] \div r[2]) % 2)
  ELSE r[1] \div r[2]

\* r > 0 rounded to 24 significand bits.
Nearest(r) == Scaled(<<RoundEven(Scaled(r, Exponent(r))), 1>>, -Exponent(r))

\* The conversion double -> float of "float GetWL() const { return wl_; }":
\* the nearest value with 24 significand bits (normal range).
ToFloat(r) ==
  IF r[2] = 0 \/ r[1] = 0 THEN r
  ELSE <<Sgn(r[1]) * Nearest(<<Abs(r[1]), r[2]>>)[1], Nearest(<<Abs(r[1]), r[2]>>)[2]>>

\* ------------------------------------------------------------------------
\* GameResult and Terminal
\* ------------------------------------------------------------------------
GameResults == {"BLACK_WON", "DRAW", "WHITE_WON"}
Terminals == {"NonTerminal", "EndOfGame", "Tablebase", "TwoFold"}

\* GameResult operator-(): swaps the winners, fixes DRAW.
NegResult(r) ==
  CASE r = "BLACK_WON" -> "WHITE_WON"
    [] r = "WHITE_WON" -> "BLACK_WON"
    [] OTHER -> "DRAW"

\* ------------------------------------------------------------------------
\* State
\* ------------------------------------------------------------------------
VARIABLES
  nodes,            \* NodeIds -> Node record (live = FALSE: not allocated)
  lows,             \* LowIds -> LowNode record
  gamebegin_node_,  \* NodeTree::gamebegin_node_
  current_head_,    \* NodeTree::current_head_
  moves_,           \* NodeTree::moves_
  subtrees_to_gc_,  \* NodeGarbageCollector::subtrees_to_gc_
  stop_,            \* NodeGarbageCollector::stop_
  gc,               \* the worker thread: its position, node_to_gc, the mutex
  rs,               \* a ResetToPosition call in progress
  iters,            \* Edge_Iterator objects of the search workers
  thr,              \* threads inside a non-atomic TryStartScoreUpdate
  aborted,          \* the assertion that ended the program, or "none"
  last,             \* the last operation: its name, arguments and result
  acct              \* visits started / finalized / cancelled on a Node

vars == <<nodes, lows, gamebegin_node_, current_head_, moves_, subtrees_to_gc_,
          stop_, gc, rs, iters, thr, aborted, last, acct>>

\* Node::Node(LowNode* parent, uint16_t index) and the member initializers.
NewNode(parent, index) ==
  [live |-> TRUE, low_node_ |-> Null, wl_ |-> RInt(0), parent_ |-> parent,
   sibling_ |-> Null, d_ |-> RInt(0), m_ |-> RInt(0), n_ |-> 0,
   n_in_flight_ |-> 0, index_ |-> index, terminal_type_ |-> "NonTerminal",
   lower_bound_ |-> "BLACK_WON", upper_bound_ |-> "WHITE_WON"]

\* Memory that holds no Node.
FreeNode == [NewNode(Null, 0) EXCEPT !.live = FALSE]

\* LowNode::LowNode(const MoveList& moves): edges with the moves, prior 0.
NewLowNode(edges) ==
  [live |-> TRUE, wl_ |-> RInt(0), edges_ |-> edges, child_ |-> Null,
   d_ |-> RInt(0), m_ |-> RInt(0), n_ |-> 0, n_in_flight_ |-> 0,
   num_parents_ |-> 0, terminal_type_ |-> "NonTerminal",
   lower_bound_ |-> "BLACK_WON", upper_bound_ |-> "WHITE_WON",
   is_transposition |-> FALSE]

FreeLowNode == [NewLowNode(<<>>) EXCEPT !.live = FALSE]

LiveNodes == {x \in NodeIds : nodes[x].live}
LiveLows == {l \in LowIds : lows[l].live}

\* ------------------------------------------------------------------------
\* Node: visit accounting (node.cc:345-411, node.h:459-462)
\* ------------------------------------------------------------------------

GateClosed_Mut(nd) == nd.n_ = 0 /\ nd.n_in_flight_ > 1

\* The test of Node::TryStartScoreUpdate: the call is refused.
GateClosed(nd) == nd.n_ = 0 /\ nd.n_in_flight_ > 0

\* The increment of Node::TryStartScoreUpdate.
StartedNode(nd) == [nd EXCEPT !.n_in_flight_ = @ + 1]

\* Node::CancelScoreUpdate past its assertion.
CancelledNode(nd, k) == [nd EXCEPT !.n_in_flight_ = @ - k]

FinalizedNode_Mut(nd, v, d, m, k) ==
  [nd EXCEPT !.wl_ = RAdd(@, RDivInt(RMulInt(RSub(v, @), k), nd.n_ + k)),
             !.d_ = RAdd(@, RDivInt(RMulInt(RSub(d, @), k), nd.n_ + k)),
             !.m_ = RAdd(@, RDivInt(RMulInt(RSub(m, @), k), nd.n_ + k)),
             !.n_ = @ + 1,
             !.n_in_flight_ = @ - k]

\* Node::FinalizeScoreUpdate past its assertion.
FinalizedNode(nd, v, d, m, k) ==
  [nd EXCEPT !.wl_ = RAdd(@, RDivInt(RMulInt(RSub(v, @), k), nd.n_ + k)),
             !.d_ = RAdd(@, RDivInt(RMulInt(RSub(d, @), k), nd.n_ + k)),
             !.m_ = RAdd(@, RDivInt(RMulInt(RSub(m, @), k), nd.n_ + k)),
             !.n_ = @ + k,
             !.n_in_flight_ = @ - k]

\* LowNode::IncrementNInFlight.
IncrementedLow(lw, k) == [lw EXCEPT !.n_in_flight_ = @ + k]


\* ------------------------------------------------------------------------
\* Calls of the search workers on a Node, each taken as one step
\* ------------------------------------------------------------------------
Last(op, x, k, ret) == [op |-> op, x |-> x, k |-> k, ret |-> ret]

\* Values a visit backs up: (v, d, m).
Evals == {<<(<<1, 4>>), (<<1, 8>>), (<<20, 1>>)>>,
          <<(<<-1, 1>>), (<<0, 1>>), (<<2, 1>>)>>}

\* bool Node::TryStartScoreUpdate()
TryStartScoreUpdate(x) ==
  /\ aborted = "none"
  /\ x \in LiveNodes
  /\ IF GateClosed(nodes[x])
       THEN /\ nodes' = nodes
            /\ last' = Last("TryStartScoreUpdate", x, 0, FALSE)
       ELSE /\ nodes' = [nodes EXCEPT ![x] = StartedNode(@)]
            /\ last' = Last("TryStartScoreUpdate", x, 0, TRUE)
  /\ UNCHANGED <<lows, aborted>>

\* Node::CancelScoreUpdate built without its assertion.
CancelScoreUpdate_Mut(x, k) ==
  /\ aborted = "none"
  /\ x \in LiveNodes
  /\ last' = Last("CancelScoreUpdate", x, k, TRUE)
  /\ nodes' = [nodes EXCEPT ![x] = CancelledNode(@, k)]
  /\ UNCHANGED <<lows, aborted>>

\* void Node::CancelScoreUpdate(int multivisit)
CancelScoreUpdate(x, k) ==
  /\ aborted = "none"
  /\ x \in LiveNodes
  /\ last' = Last("CancelScoreUpdate", x, k, TRUE)
  /\ IF nodes[x].n_in_flight_ >= k
       THEN nodes' = [nodes EXCEPT ![x] = CancelledNode(@, k)] /\ UNCHANGED aborted
       ELSE aborted' = "CancelScoreUpdate: n_in_flight_ >= multivisit" /\ UNCHANGED nodes
  /\ UNCHANGED lows

\* void Node::FinalizeScoreUpdate(float v, float d, float m, int multivisit)
FinalizeScoreUpdate(x, e, k) ==
  /\ aborted = "none"
  /\ x \in LiveNodes
  /\ last' = Last("FinalizeScoreUpdate", x, k, TRUE)
  /\ IF nodes[x].n_in_flight_ >= k
       THEN /\ nodes' = [nodes EXCEPT ![x] = FinalizedNode(@, e[1], e[2], e[3], k)]
            /\ UNCHANGED aborted
       ELSE /\ aborted' = "FinalizeScoreUpdate: n_in_flight_ >= multivisit"
            /\ UNCHANGED nodes
  /\ UNCHANGED lows

\* void Node::IncrementNInFlight(int multivisit)
IncrementNInFlight(x, k) ==
  /\ aborted = "none"
  /\ x \in LiveNodes
  /\ last' = Last("IncrementNInFlight", x, k, TRUE)
  /\ lows' = IF nodes[x].low_node_ # Null
               THEN [lows EXCEPT ![nodes[x].low_node_] = IncrementedLow(@, k)]
               ELSE lows
  /\ nodes' = [nodes EXCEPT ![x].n_in_flight_ = @ + k]
  /\ UNCHANGED aborted

\* ------------------------------------------------------------------------
\* SpecGate: one Node, as constructed for the game begin, and the calls of
\* the search workers on it, one call at a time.
\* ------------------------------------------------------------------------
treeVars == <<gamebegin_node_, current_head_, moves_>>
gcVars == <<subtrees_to_gc_, stop_, gc>>

IdleGc == [pc |-> "sleep", node_to_gc |-> Null, gc_mutex_ |-> "free"]
\* ResetToPosition in progress: its locals old_head and seen_old_head, the
\* number of moves still to replay, and two history variables: old_freed
\* (the Node old_head points at has been destroyed) and genuine (that very
\* Node was the game begin or has been current_head_ during the replay).
IdleRs == [pc |-> "idle", old_head |-> Null, seen_old_head |-> FALSE,
           todo |-> 0, old_freed |-> FALSE, genuine |-> FALSE]
NoAcct == [started |-> 0, finalized |-> 0, cancelled |-> 0, s2 |-> "off",
           resets |-> 0, calls |-> 0]

InitCommon ==
  /\ lows = [l \in LowIds |-> FreeLowNode]
  /\ moves_ = <<>>
  /\ subtrees_to_gc_ = <<>>
  /\ stop_ = FALSE
  /\ gc = IdleGc
  /\ rs = IdleRs
  /\ iters = <<>>
  /\ aborted = "none"
  /\ last = Last("Init", Null, 0, TRUE)

InitGate ==
  /\ InitCommon
  /\ nodes = [x \in NodeIds |-> IF x = 1 THEN NewNode(Null, 0) ELSE FreeNode]
  /\ gamebegin_node_ = 1
  /\ current_head_ = 1
  /\ thr = <<>>
  /\ acct = [NoAcct EXCEPT !.s2 = "fresh"]

\* The scenario "A starts, B is refused, A finalizes one visit, B retries".
S2Next(s2, op, k) ==
  CASE s2 = "fresh" /\ op = "TryStartScoreUpdate" -> "A_started"
    [] s2 = "A_started" /\ op = "TryStartScoreUpdate" -> "B_tried"
    [] s2 = "B_tried" /\ op = "FinalizeScoreUpdate" /\ k = 1 -> "A_finalized"
    [] s2 = "A_finalized" /\ op = "TryStartScoreUpdate" -> "B_retried"
    [] OTHER -> "off"

GateFrame == UNCHANGED <<treeVars, gcVars, rs, iters, thr>>

GateTryStart ==
  /\ acct.started < MaxVisits \/ GateClosed(nodes[gamebegin_node_])
  /\ TryStartScoreUpdate(gamebegin_node_)
  /\ acct' = [acct EXCEPT !.started = IF last'.ret THEN @ + 1 ELSE @,
                          !.s2 = S2Next(@, "TryStartScoreUpdate", 0)]
  /\ GateFrame

GateIncrement ==
  \E k \in Multivisits :
    /\ acct.started + k <= MaxVisits
    /\ IncrementNInFlight(gamebegin_node_, k)
    /\ acct' = [acct EXCEPT !.started = @ + k,
                            !.s2 = S2Next(@, "IncrementNInFlight", k)]
    /\ GateFrame

GateFinalize ==
  \E k \in Multivisits, e \in Evals :
    /\ FinalizeScoreUpdate(gamebegin_node_, e, k)
    /\ acct' = [acct EXCEPT !.finalized = IF aborted' = "none" THEN @ + k ELSE @,
                            !.s2 = S2Next(@, "FinalizeScoreUpdate", k)]
    /\ GateFrame

GateCancel ==
  \E k \in Multivisits :
    /\ CancelScoreUpdate(gamebegin_node_, k)
    /\ acct' = [acct EXCEPT !.cancelled = IF aborted' = "none" THEN @ + k ELSE @,
                            !.s2 = S2Next(@, "CancelScoreUpdate", k)]
    /\ GateFrame

NextGate == GateTryStart \/ GateIncrement \/ GateFinalize \/ GateCancel

SpecGate == InitGate /\ [][NextGate]_vars

GateNode == nodes[gamebegin_node_]

\* C1 (first-visit gate).  On a Node with n = 0 and n_in_flight = 0 a
\* TryStartScoreUpdate returns true and leaves n_in_flight = 1; while n = 0
\* and n_in_flight > 0 every TryStartScoreUpdate returns false and changes
\* no field of the Node, and only FinalizeScoreUpdate or CancelScoreUpdate
\* ends that condition; in the sequence "A starts, B tries, A finalizes one
\* visit, B retries" B is refused, the retry returns true and the Node ends
\* with n = 1 and n_in_flight = 1.
C1_FirstVisitGate ==
  /\ [][/\ (last'.op = "TryStartScoreUpdate" /\ GateNode.n_ = 0 /\ GateNode.n_in_flight_ = 0)
             => (last'.ret /\ GateNode'.n_in_flight_ = 1 /\ GateNode'.n_ = 0)
        /\ (last'.op = "TryStartScoreUpdate" /\ GateNode.n_ = 0 /\ GateNode.n_in_flight_ > 0)
             => (~last'.ret /\ nodes' = nodes /\ lows' = lows)
        /\ (GateNode.n_ = 0 /\ GateNode.n_in_flight_ > 0 /\ aborted' = "none"
            /\ ~(GateNode'.n_ = 0 /\ GateNode'.n_in_flight_ > 0))
             => \/ last'.op = "FinalizeScoreUpdate" /\ GateNode'.n_ > 0
                \/ last'.op = "CancelScoreUpdate" /\ GateNode'.n_in_flight_ = 0]_vars
  /\ [](acct.s2 = "B_tried" => ~last.ret /\ GateNode.n_in_flight_ = 1)
  /\ [](acct.s2 = "B_retried" =>
          last.ret /\ GateNode.n_ = 1 /\ GateNode.n_in_flight_ = 1)

\* The retry of the scenario has returned.
C1_Witness == acct.s2 = "B_retried" /\ last.ret

\* C3 (visit conservation).  While no assertion has failed, the Node's n is
\* the sum of the multivisits of its FinalizeScoreUpdate calls and its
\* n_in_flight is the visits started less those finalized and cancelled,
\* which is never negative.
C3_VisitConservation ==
  aborted = "none" =>
    /\ GateNode.n_ = acct.finalized
    /\ GateNode.n_in_flight_ = acct.started - acct.finalized - acct.cancelled
    /\ GateNode.n_in_flight_ >= 0

\* Visits were started, finalized and cancelled, and one is still in flight.
C3_Witness ==
  /\ aborted = "none"
  /\ acct.finalized >= 1 /\ acct.cancelled >= 1
  /\ GateNode.n_in_flight_ >= 1


\* ------------------------------------------------------------------------
\* SpecRace: two search workers inside Node::TryStartScoreUpdate on the
\* same Node without a lock: n_ and n_in_flight_ are plain uint32_t fields
\* (node.h:562-566), so the test (node.cc:346) and the increment
\* (node.cc:347) of one call interleave with those of the other.
\* ------------------------------------------------------------------------
Workers == {1, 2}

InitRace ==
  /\ InitCommon
  /\ nodes = [x \in NodeIds |-> IF x = 1 THEN NewNode(Null, 0) ELSE FreeNode]
  /\ gamebegin_node_ = 1
  /\ current_head_ = 1
  /\ thr = [t \in Workers |-> "idle"]
  /\ acct = NoAcct

RaceFrame == UNCHANGED <<lows, treeVars, gcVars, rs, iters, aborted, acct>>

\* node.cc:346: if (n_ == 0 && n_in_flight_ > 0) return false;
RaceTest(t) ==
  /\ thr[t] = "idle"
  /\ GateNode.n_ + GateNode.n_in_flight_ < MaxVisits
  /\ thr' = [thr EXCEPT ![t] = IF GateClosed(GateNode) THEN "refused" ELSE "tested"]
  /\ last' = Last("TryStartScoreUpdate:test", gamebegin_node_, t, ~GateClosed(GateNode))
  /\ UNCHANGED nodes
  /\ RaceFrame

\* node.cc:347-348: ++n_in_flight_; return true;
RaceIncrement(t) ==
  /\ thr[t] = "tested"
  /\ nodes' = [nodes EXCEPT ![gamebegin_node_] = StartedNode(@)]
  /\ thr' = [thr EXCEPT ![t] = "started"]
  /\ last' = Last("TryStartScoreUpdate:increment", gamebegin_node_, t, TRUE)
  /\ RaceFrame

\* The worker that was refused gives up and may call again.
RaceRefused(t) ==
  /\ thr[t] = "refused"
  /\ thr' = [thr EXCEPT ![t] = "idle"]
  /\ last' = Last("TryStartScoreUpdate:refused", gamebegin_node_, t, FALSE)
  /\ UNCHANGED nodes
  /\ RaceFrame

\* The worker whose call returned true completes its visit.
RaceFinalize(t) ==
  /\ thr[t] = "started"
  /\ \E e \in Evals : FinalizeScoreUpdate(gamebegin_node_, e, 1)
  /\ thr' = [thr EXCEPT ![t] = "idle"]
  /\ UNCHANGED <<treeVars, gcVars, rs, iters, acct>>

\* The worker whose call returned true abandons its visit.
RaceCancel(t) ==
  /\ thr[t] = "started"
  /\ CancelScoreUpdate(gamebegin_node_, 1)
  /\ thr' = [thr EXCEPT ![t] = "idle"]
  /\ UNCHANGED <<treeVars, gcVars, rs, iters, acct>>

NextRace ==
  \E t \in Workers :
    \/ RaceTest(t)
    \/ RaceIncrement(t)
    \/ RaceRefused(t)
    \/ RaceFinalize(t)
    \/ RaceCancel(t)

SpecRace == InitRace /\ [][NextRace]_vars

\* C2 (concurrent first-visit gate).  Two TryStartScoreUpdate calls that run
\* concurrently on a Node with n = 0 and n_in_flight = 0 never both return
\* true: two workers are never both inside the first expansion of the Node.
C2_AtMostOneStarts ==
  ~(GateNode.n_ = 0 /\ thr[1] = "started" /\ thr[2] = "started")


\* ------------------------------------------------------------------------
\* The heap: ownership, allocation and destruction
\* ------------------------------------------------------------------------

\* The Nodes of a sibling chain, from its first Node on (Node::sibling_).
RECURSIVE Chain(_, _)
Chain(ns, x) == IF x = Null THEN <<>> ELSE <<x>> \o Chain(ns, ns[x].sibling_)

Range(f) == {f[i] : i \in DOMAIN f}

\* The materialized children of a LowNode (LowNode::child_ and the chain).
ChildList(ns, ls, l) == IF l = Null THEN <<>> ELSE Chain(ns, ls[l].child_)

\* The Nodes that hold a shared handle on a LowNode (Node::low_node_).
Holders(ns, l) == {x \in NodeIds : ns[x].live /\ ns[x].low_node_ = l}

\* operator new: the lowest address that holds no object.
FreeNodeIds(ns) == {x \in NodeIds : ~ns[x].live}
FreeLowIds(ls) == {l \in LowIds : ~ls[l].live}
Lowest(S) == CHOOSE x \in S : \A y \in S : x <= y

\* What the destruction of the Nodes Dn and of the LowNodes Dl takes with
\* it: ~Node releases sibling_ (unique_ptr) and its handle on low_node_
\* (shared_ptr, the LowNode dies with its last handle); ~LowNode releases
\* child_ (unique_ptr).  The implicit destructors call no RemoveParent.
RECURSIVE Doomed(_, _, _, _)
Doomed(ns, ls, Dn, Dl) ==
  LET Dn2 == (Dn \cup {ns[x].sibling_ : x \in Dn} \cup {ls[l].child_ : l \in Dl})
               \ {Null}
      Dl2 == Dl \cup {l \in LowIds : /\ ls[l].live
                                     /\ Holders(ns, l) # {}
                                     /\ Holders(ns, l) \subseteq Dn2}
  IN IF Dn2 = Dn /\ Dl2 = Dl THEN [n |-> Dn, l |-> Dl]
     ELSE Doomed(ns, ls, Dn2, Dl2)

\* The heap once the Nodes D.n and the LowNodes D.l are destroyed.
Destroyed(ns, ls, D) ==
  [n |-> [x \in NodeIds |-> IF x \in D.n THEN FreeNode ELSE ns[x]],
   l |-> [l \in LowIds |-> IF l \in D.l THEN FreeLowNode ELSE ls[l]]]

\* The Nodes owned, directly or through LowNodes, by the chain starting at
\* x (x, its siblings, and all their descendants).
RECURSIVE Owned(_, _, _)
Owned(ns, ls, S) ==
  LET S2 == (S \cup {ns[x].sibling_ : x \in S}
               \cup {IF ns[x].low_node_ = Null THEN Null
                     ELSE ls[ns[x].low_node_].child_ : x \in S}) \ {Null}
  IN IF S2 = S THEN S ELSE Owned(ns, ls, S2)

\* The Nodes below x: the children of its LowNode and all they own.
Below(ns, ls, x) ==
  IF x = Null \/ ns[x].low_node_ = Null THEN {}
  ELSE Owned(ns, ls, {ls[ns[x].low_node_].child_} \ {Null})

\* x and the Nodes below it (not its siblings).
Subtree(ns, ls, x) == IF x = Null THEN {} ELSE {x} \cup Below(ns, ls, x)

\* The LowNodes held by a set of Nodes.
LowsOf(ns, S) == {ns[x].low_node_ : x \in S} \ {Null}

\* ------------------------------------------------------------------------
\* LowNode::AddParent / RemoveParent, Node::SetLowNode / UnsetLowNode
\* ------------------------------------------------------------------------

\* LowNode::AddParent without its call of IncrementNInFlight.
AddedParent_Mut(lw, n_in_flight) ==
  [lw EXCEPT !.num_parents_ = (@ + 1) % 256,
             !.is_transposition = @ \/ ((lw.num_parents_ + 1) % 256 > 1)]

\* LowNode::AddParent(int n_in_flight)
AddedParent(lw, n_in_flight) ==
  [lw EXCEPT !.num_parents_ = (@ + 1) % 256,
             !.is_transposition = @ \/ ((lw.num_parents_ + 1) % 256 > 1),
             !.n_in_flight_ = @ + n_in_flight]

\* LowNode::RemoveParent()
RemovedParent(lw) == [lw EXCEPT !.num_parents_ = (@ + 255) % 256]

\* Node::SetLowNode past its assertion: the heap with x holding l.
SetLowNodeHeap(ns, ls, x, l) ==
  [n |-> [ns EXCEPT ![x].low_node_ = l],
   l |-> [ls EXCEPT ![l] = AddedParent(@, ns[x].n_in_flight_)]]

\* The heap once Node x has dropped its handle on its LowNode without
\* telling it (shared_ptr reset or move-assignment): the LowNode and what
\* it owns die if that was the last handle.
DropHandle(ns, ls, x) ==
  LET l == ns[x].low_node_
      ns1 == [ns EXCEPT ![x].low_node_ = Null]
  IN IF l = Null THEN [n |-> ns, l |-> ls, D |-> [n |-> {}, l |-> {}]]
     ELSE IF Holders(ns1, l) # {}
       THEN [n |-> ns1, l |-> ls, D |-> [n |-> {}, l |-> {}]]
       ELSE LET D == Doomed(ns1, ls, {}, {l})
                h == Destroyed(ns1, ls, D)
            IN [n |-> h.n, l |-> h.l, D |-> D]

\* Node::UnsetLowNode() without the call of RemoveParent.
UnsetLowNodeHeap_Mut(ns, ls, x) == DropHandle(ns, ls, x)

\* Node::UnsetLowNode(): RemoveParent, then low_node_.reset().
UnsetLowNodeHeap(ns, ls, x) ==
  IF ns[x].low_node_ = Null THEN DropHandle(ns, ls, x)
  ELSE DropHandle(ns, [ls EXCEPT ![ns[x].low_node_] = RemovedParent(@)], x)


\* ------------------------------------------------------------------------
\* Edge_Iterator (node.h:666-757).  node_ptr_ points at a unique_ptr<Node>:
\* the child_ of a LowNode or the sibling_ of a Node.
\* ------------------------------------------------------------------------
NullSlot == <<"null", Null>>

SlotGet(ns, ls, s) ==
  CASE s[1] = "child" -> ls[s[2]].child_
    [] s[1] = "sibling" -> ns[s[2]].sibling_
    [] OTHER -> Null

\* The walk of Edge_Iterator::Actualize (node.h:739-741).
RECURSIVE ActualizeSlot(_, _, _, _)
ActualizeSlot(ns, ls, s, idx) ==
  LET t == SlotGet(ns, ls, s)
  IN IF t # Null /\ ns[t].index_ < idx
       THEN ActualizeSlot(ns, ls, <<"sibling", t>>, idx)
       ELSE s

Actualize_Mut(ns, ls, it) ==
  LET s == it.node_ptr_
      t == SlotGet(ns, ls, s)
  IN IF t # Null /\ ns[t].index_ = it.current_idx_
       THEN [it EXCEPT !.node_ = t, !.node_ptr_ = <<"sibling", t>>]
       ELSE [it EXCEPT !.node_ = Null, !.node_ptr_ = s]

\* void Edge_Iterator::Actualize()
Actualize(ns, ls, it) ==
  LET s == ActualizeSlot(ns, ls, it.node_ptr_, it.current_idx_)
      t == SlotGet(ns, ls, s)
  IN IF t # Null /\ ns[t].index_ = it.current_idx_
       THEN [it EXCEPT !.node_ = t, !.node_ptr_ = <<"sibling", t>>]
       ELSE [it EXCEPT !.node_ = Null, !.node_ptr_ = s]

\* Node::GetNumEdges()
GetNumEdges(ns, ls, x) ==
  IF ns[x].low_node_ = Null THEN 0 ELSE Len(ls[ns[x].low_node_].edges_)

\* Node::Edges(): the "begin()" iterator, Edge_Iterator(parent_node, child_ptr).
Edges(ns, ls, x) ==
  LET l == ns[x].low_node_
      it0 == [parent |-> x, has_edge |-> GetNumEdges(ns, ls, x) > 0,
              node_ |-> Null,
              node_ptr_ |-> IF l = Null THEN NullSlot ELSE <<"child", l>>,
              current_idx_ |-> 0, total_count_ |-> GetNumEdges(ns, ls, x)]
  IN IF it0.has_edge THEN Actualize(ns, ls, it0) ELSE it0

Advance_Mut(ns, ls, it) ==
  IF it.current_idx_ + 1 = it.total_count_
    THEN [it EXCEPT !.current_idx_ = @ + 1, !.has_edge = FALSE]
    ELSE [it EXCEPT !.current_idx_ = @ + 1]

\* void Edge_Iterator::operator++()
Advance(ns, ls, it) ==
  IF it.current_idx_ + 1 = it.total_count_
    THEN [it EXCEPT !.current_idx_ = @ + 1, !.has_edge = FALSE]
    ELSE Actualize(ns, ls, [it EXCEPT !.current_idx_ = @ + 1])

\* Whether GetOrSpawnNode has to allocate a Node.
WouldSpawn(ns, ls, it) == it.node_ = Null /\ Actualize(ns, ls, it).node_ = Null

GetOrSpawn_Mut(ns, ls, it, parent) ==
  IF it.node_ # Null THEN [n |-> ns, l |-> ls, it |-> it, ret |-> it.node_]
  ELSE
    LET a == Lowest(FreeNodeIds(ns))
        l == ns[parent].low_node_
        fresh == [NewNode(l, it.current_idx_) EXCEPT !.sibling_ = ls[l].child_]
    IN [n |-> [ns EXCEPT ![a] = fresh], l |-> [ls EXCEPT ![l].child_ = a],
        it |-> [it EXCEPT !.node_ = a], ret |-> a]

\* Node* Edge_Iterator::GetOrSpawnNode(Node* parent): the heap, the
\* iterator and the Node returned.
GetOrSpawn(ns, ls, it, parent) ==
  IF it.node_ # Null THEN [n |-> ns, l |-> ls, it |-> it, ret |-> it.node_]
  ELSE
    LET it1 == Actualize(ns, ls, it)
    IN IF it1.node_ # Null THEN [n |-> ns, l |-> ls, it |-> it1, ret |-> it1.node_]
       ELSE
         LET a == Lowest(FreeNodeIds(ns))
             s == it1.node_ptr_
             tmp == SlotGet(ns, ls, s)
             fresh == [NewNode(ns[parent].low_node_, it1.current_idx_)
                         EXCEPT !.sibling_ = tmp]
             ns1 == [ns EXCEPT ![a] = fresh]
             ns2 == IF s[1] = "sibling" THEN [ns1 EXCEPT ![s[2]].sibling_ = a]
                    ELSE ns1
             ls2 == IF s[1] = "child" THEN [ls EXCEPT ![s[2]].child_ = a] ELSE ls
             it2 == Actualize(ns2, ls2, it1)
         IN [n |-> ns2, l |-> ls2, it |-> it2, ret |-> it2.node_]

\* ------------------------------------------------------------------------
\* Terminal transitions (node.cc:239-343)
\* ------------------------------------------------------------------------
IsTerminal_Mut(r) == TRUE

\* Node::IsTerminal(), LowNode::IsTerminal()
IsTerminal(r) == r.terminal_type_ # "NonTerminal"

\* The W / D of a game result, as MakeTerminal stores them.
ResultWL(result) ==
  CASE result = "DRAW" -> RInt(0)
    [] result = "WHITE_WON" -> RInt(1)
    [] OTHER -> RInt(-1)
ResultD(result) == IF result = "DRAW" THEN RInt(1) ELSE RInt(0)

\* The policy codec on IEEE-754 bit patterns (node.cc:153-168).
\* 3 << 28, the two exponent bits assumed on, and 1 << 11, the rounding bit.
ExponentBits == 805306368
RoundingBit == 2048
\* The bit patterns of 0.0f and 1.0f.
ZeroBits == 0
OneBits == 1065353216

\* Edge::SetP without the test for a negative tmp.
EncodeNoClamp_Mut(bits) == ((bits + RoundingBit - ExponentBits) \div 4096) % 65536
\* Edge::SetP adding 1 << 12 where the code adds 1 << 11.
EncodeRoundUp_Mut(bits) ==
  IF bits + 2 * RoundingBit - ExponentBits < 0 THEN 0
  ELSE ((bits + 2 * RoundingBit - ExponentBits) \div 4096) % 65536
\* Edge::SetP shifting tmp by 11 where the code shifts by 12.
EncodeShift11_Mut(bits) ==
  IF bits + RoundingBit - ExponentBits < 0 THEN 0
  ELSE ((bits + RoundingBit - ExponentBits) \div 2048) % 65536
\* void Edge::SetP(float p): tmp += (1 << 11) - (3 << 28);
\* p_ = (tmp < 0) ? 0 : static_cast<uint16_t>(tmp >> 12).
EncodeP(bits) ==
  IF bits + RoundingBit - ExponentBits < 0 THEN 0
  ELSE ((bits + RoundingBit - ExponentBits) \div 4096) % 65536

\* Edge::GetP without the assumed exponent bits.
DecodeP_Mut(c) == c * 4096
\* float Edge::GetP(): (uint32_t(p_) << 12) | (3 << 28); p_ << 12 is below
\* 1 << 28, so the or adds.
DecodeP(c) == c * 4096 + ExponentBits

\* void LowNode::SetBounds(GameResult lower, GameResult upper)
LowSetBounds(lw, lower, upper) ==
  [lw EXCEPT !.lower_bound_ = lower, !.upper_bound_ = upper]

\* LowNode::MakeTerminal without its call of SetBounds.
LowMadeTerminal_Mut(lw, result, plies, type) ==
  [lw EXCEPT !.terminal_type_ = type,
             !.m_ = RInt(plies),
             !.wl_ = ResultWL(result),
             !.d_ = ResultD(result)]

\* void LowNode::MakeTerminal(GameResult, float plies_left, Terminal type)
LowMadeTerminal(lw, result, plies, type) ==
  [lw EXCEPT !.lower_bound_ = IF type # "TwoFold" THEN result ELSE @,
             !.upper_bound_ = IF type # "TwoFold" THEN result ELSE @,
             !.terminal_type_ = type,
             !.m_ = RInt(plies),
             !.wl_ = ResultWL(result),
             !.d_ = ResultD(result)]

\* Node::MakeTerminal clearing the prior of every edge of the parent.
NodeMakeTerminalHeap_Mut(ns, ls, x, result, plies, type) ==
  [n |-> [ns EXCEPT ![x] =
            [@ EXCEPT !.lower_bound_ = IF type # "TwoFold" THEN result ELSE @,
                      !.upper_bound_ = IF type # "TwoFold" THEN result ELSE @,
                      !.terminal_type_ = type,
                      !.m_ = RInt(plies),
                      !.wl_ = ResultWL(result),
                      !.d_ = ResultD(result)]],
   l |-> IF result = "BLACK_WON" /\ ns[x].parent_ # Null
           THEN [ls EXCEPT ![ns[x].parent_].edges_ =
                   [j \in DOMAIN @ |-> [@[j] EXCEPT !.p_ = EncodeP(ZeroBits)]]]
           ELSE ls]

\* void Node::MakeTerminal(GameResult, float plies_left, Terminal type): the
\* heap; a loss clears the prior of the Node's own edge (Edge::SetP(0.0f)
\* stores the code 0).
NodeMakeTerminalHeap(ns, ls, x, result, plies, type) ==
  [n |-> [ns EXCEPT ![x] =
            [@ EXCEPT !.lower_bound_ = IF type # "TwoFold" THEN result ELSE @,
                      !.upper_bound_ = IF type # "TwoFold" THEN result ELSE @,
                      !.terminal_type_ = type,
                      !.m_ = RInt(plies),
                      !.wl_ = ResultWL(result),
                      !.d_ = ResultD(result)]],
   l |-> IF result = "BLACK_WON" /\ ns[x].parent_ # Null
           THEN [ls EXCEPT ![ns[x].parent_].edges_[ns[x].index_ + 1].p_ = EncodeP(ZeroBits)]
           ELSE ls]

\* The loop of LowNode::MakeNotTerminal over node->Edges(): the visits and
\* the visit-weighted sums of the children with n > 0.
RECURSIVE SumChildren(_, _, _, _)
SumChildren(ns, ls, it, acc) ==
  IF ~it.has_edge THEN acc
  ELSE LET c == it.node_
           n == IF c = Null THEN 0 ELSE ns[c].n_
           acc2 == IF n > 0
                     THEN [n_ |-> acc.n_ + n,
                           wl_ |-> RAdd(acc.wl_, ToFloat(RMulInt(ToFloat(ns[c].wl_), n))),
                           d_ |-> RAdd(acc.d_, RMulInt(ns[c].d_, n)),
                           m_ |-> RAdd(acc.m_, RMulInt(ns[c].m_, n))]
                     ELSE acc
       IN SumChildren(ns, ls, Advance(ns, ls, it), acc2)

\* void LowNode::MakeNotTerminal(const Node* node): the LowNode l, reverted
\* with the children seen through Node x.
LowMadeNotTerminal(ns, ls, l, x) ==
  IF ~IsTerminal(ls[l]) THEN ls[l]
  ELSE
    LET zero == [n_ |-> 0, wl_ |-> RInt(0), d_ |-> RInt(0), m_ |-> RInt(0)]
        sum == SumChildren(ns, ls, Edges(ns, ls, x), zero)
        base == [ls[l] EXCEPT !.terminal_type_ = "NonTerminal",
                              !.lower_bound_ = "BLACK_WON",
                              !.upper_bound_ = "WHITE_WON",
                              !.n_ = 0, !.wl_ = RInt(0), !.d_ = RInt(0),
                              !.m_ = RInt(0)]
    IN IF GetNumEdges(ns, ls, x) > 0
         THEN [base EXCEPT !.n_ = sum.n_,
                           !.wl_ = RDivInt(sum.wl_, sum.n_),
                           !.d_ = RDivInt(sum.d_, sum.n_),
                           !.m_ = RDivInt(sum.m_, sum.n_)]
         ELSE base

\* Node::MakeNotTerminal without its early return, counting one more ply
\* at each call.
NodeMakeNotTerminalHeap_Mut(ns, ls, x, also_low_node) ==
  [n |-> [ns EXCEPT ![x] = [@ EXCEPT !.terminal_type_ = "NonTerminal",
                                     !.m_ = RAdd(@, RInt(1))]],
   l |-> ls]

\* void Node::MakeNotTerminal(bool also_low_node): the heap.
NodeMakeNotTerminalHeap(ns, ls, x, also_low_node) ==
  LET l == ns[x].low_node_
  IN IF ~IsTerminal(ns[x])
        /\ (~also_low_node \/ l = Null \/ ~IsTerminal(ls[l]))
       THEN [n |-> ns, l |-> ls]
     ELSE IF l # Null
       THEN LET ls1 == IF also_low_node
                         THEN [ls EXCEPT ![l] = LowMadeNotTerminal(ns, ls, l, x)]
                         ELSE ls
            IN [n |-> [ns EXCEPT ![x] =
                         [@ EXCEPT !.terminal_type_ = "NonTerminal",
                                   !.lower_bound_ = NegResult(ls1[l].upper_bound_),
                                   !.upper_bound_ = NegResult(ls1[l].lower_bound_),
                                   !.n_ = ls1[l].n_,
                                   !.wl_ = RNeg(ToFloat(ls1[l].wl_)),
                                   !.d_ = ls1[l].d_,
                                   !.m_ = RAdd(ls1[l].m_, RInt(1))]],
                l |-> ls1]
       ELSE [n |-> [ns EXCEPT ![x] =
                      [@ EXCEPT !.terminal_type_ = "NonTerminal",
                                !.lower_bound_ = "BLACK_WON",
                                !.upper_bound_ = "WHITE_WON",
                                !.n_ = 0, !.wl_ = RInt(0), !.d_ = RInt(0),
                                !.m_ = RInt(0)]],
             l |-> ls]


\* ------------------------------------------------------------------------
\* Releasing children to the NodeGarbageCollector (node.cc:61-65, 413-433)
\* ------------------------------------------------------------------------

AddToGcQueue_Mut(q, node) == q

\* NodeGarbageCollector::AddToGcQueue(std::unique_ptr<Node> node)
AddToGcQueue(q, node) == IF node = Null THEN q ELSE Append(q, node)

IndexIn(seq, v) == CHOOSE j \in DOMAIN seq : seq[j] = v

\* void LowNode::ReleaseChildren()
LowReleaseChildren(ns, ls, q, l) ==
  [n |-> ns, l |-> [ls EXCEPT ![l].child_ = Null],
   q |-> AddToGcQueue(q, ls[l].child_)]

LowReleaseChildrenExceptOne_Mut(ns, ls, q, l, save) ==
  IF save = Null \/ save \notin Range(ChildList(ns, ls, l))
    THEN [n |-> ns, l |-> [ls EXCEPT ![l].child_ = Null],
          q |-> AddToGcQueue(q, ls[l].child_)]
    ELSE LET ch == ChildList(ns, ls, l)
             j == IndexIn(ch, save)
         IN [n |-> IF j = 1 THEN ns ELSE [ns EXCEPT ![ch[j - 1]].sibling_ = Null],
             l |-> [ls EXCEPT ![l].child_ = save],
             q |-> AddToGcQueue(q, IF j = 1 THEN Null ELSE ls[l].child_)]

\* void LowNode::ReleaseChildrenExceptOne(Node* node_to_save)
LowReleaseChildrenExceptOne(ns, ls, q, l, save) ==
  IF save = Null \/ save \notin Range(ChildList(ns, ls, l))
    THEN [n |-> ns, l |-> [ls EXCEPT ![l].child_ = Null],
          q |-> AddToGcQueue(q, ls[l].child_)]
    ELSE LET ch == ChildList(ns, ls, l)
             j == IndexIn(ch, save)
             ns1 == [ns EXCEPT ![save].sibling_ = Null]
             q1 == AddToGcQueue(q, ns[save].sibling_)
         IN [n |-> IF j = 1 THEN ns1 ELSE [ns1 EXCEPT ![ch[j - 1]].sibling_ = Null],
             l |-> [ls EXCEPT ![l].child_ = save],
             q |-> AddToGcQueue(q1, IF j = 1 THEN Null ELSE ls[l].child_)]

\* ------------------------------------------------------------------------
\* NodeTree (node.cc:566-641)
\* ------------------------------------------------------------------------

\* The search of NodeTree::MakeMove for the edge of the move (node.cc:571-572).
RECURSIVE FindEdge(_, _, _, _)
FindEdge(ns, ls, it, move) ==
  IF ~it.has_edge THEN it
  ELSE IF ls[ns[it.parent].low_node_].edges_[it.current_idx_ + 1].move_ = move
    THEN it
    ELSE FindEdge(ns, ls, Advance(ns, ls, it), move)

\* What a MakeMove would allocate: Nodes and LowNodes.
MakeMoveNeeds(ns, ls, head, move) ==
  LET it == FindEdge(ns, ls, Edges(ns, ls, head), move)
  IN IF ns[head].low_node_ = Null THEN [n |-> 1, l |-> 1]
     ELSE IF it.has_edge /\ WouldSpawn(ns, ls, it) THEN [n |-> 1, l |-> 0]
     ELSE [n |-> 0, l |-> 0]

\* Node* Node::CreateSingleChildNode(Move move), past its assertion.
CreateSingleChildNode(ns, ls, x, move) ==
  LET a == Lowest(FreeLowIds(ls))
      b == Lowest(FreeNodeIds(ns))
      ls1 == [ls EXCEPT ![a] = [NewLowNode(<<[move_ |-> move, p_ |-> 0]>>)
                                  EXCEPT !.child_ = b]]
      ns1 == [ns EXCEPT ![b] = NewNode(a, 0)]
      h == SetLowNodeHeap(ns1, ls1, x, a)
  IN [n |-> h.n, l |-> h.l, ret |-> b]

\* NodeTree::MakeMove, the loop (node.cc:571-579): the Node of the edge
\* found is spawned, if an edge was found.
MakeMoveSpawned(ns, ls, it, head) ==
  IF it.has_edge THEN GetOrSpawn(ns, ls, it, head)
  ELSE [n |-> ns, l |-> ls, it |-> it, ret |-> Null]

\* NodeTree::MakeMove without the revert of a terminal new head.
MakeMoveReverted_Mut(ns, ls, new_head) == [n |-> ns, l |-> ls]
\* node.cc:576: if (new_head->IsTerminal()) new_head->MakeNotTerminal();
MakeMoveReverted(ns, ls, new_head) ==
  IF new_head # Null /\ IsTerminal(ns[new_head])
    THEN NodeMakeNotTerminalHeap(ns, ls, new_head, TRUE)
    ELSE [n |-> ns, l |-> ls]

\* node.cc:581: current_head_->ReleaseChildrenExceptOne(new_head), which
\* does nothing on a Node without LowNode (node.h:482-488).
MakeMoveReleased(ns, ls, q, head, new_head) ==
  IF ns[head].low_node_ # Null
    THEN LowReleaseChildrenExceptOne(ns, ls, q, ns[head].low_node_, new_head)
    ELSE [n |-> ns, l |-> ls, q |-> q]

\* NodeTree::MakeMove leaving current_head_ where it was when the move has
\* a child.
MakeMoveHeaded_Mut(ns, ls, q, head, move, matched) ==
  IF ns[head].low_node_ # Null /\ ls[ns[head].low_node_].child_ # Null
    THEN [n |-> ns, l |-> ls, q |-> q, head |-> head,
          ab |-> "none", matched |-> matched]
  ELSE IF ns[head].low_node_ # Null
    THEN [n |-> ns, l |-> ls, q |-> q, head |-> head,
          ab |-> "CreateSingleChildNode: !low_node_", matched |-> FALSE]
    ELSE [n |-> CreateSingleChildNode(ns, ls, head, move).n,
          l |-> CreateSingleChildNode(ns, ls, head, move).l,
          q |-> q,
          head |-> CreateSingleChildNode(ns, ls, head, move).ret,
          ab |-> "none", matched |-> FALSE]

\* node.cc:582-584: the child that is left becomes the head, or a single
\* child is created.
MakeMoveHeaded(ns, ls, q, head, move, matched) ==
  IF ns[head].low_node_ # Null /\ ls[ns[head].low_node_].child_ # Null
    THEN [n |-> ns, l |-> ls, q |-> q, head |-> ls[ns[head].low_node_].child_,
          ab |-> "none", matched |-> matched]
  ELSE IF ns[head].low_node_ # Null
    THEN [n |-> ns, l |-> ls, q |-> q, head |-> head,
          ab |-> "CreateSingleChildNode: !low_node_", matched |-> FALSE]
    ELSE [n |-> CreateSingleChildNode(ns, ls, head, move).n,
          l |-> CreateSingleChildNode(ns, ls, head, move).l,
          q |-> q,
          head |-> CreateSingleChildNode(ns, ls, head, move).ret,
          ab |-> "none", matched |-> FALSE]

\* void NodeTree::MakeMove(Move move): the heap, the queue, the new
\* current_head_, and the assertion that failed, if one did.
MakeMoveW(ns, ls, q, head, move) ==
  LET Headed(r, matched) == MakeMoveHeaded(r.n, r.l, r.q, head, move, matched)
      Released(h, new_head, matched) ==
        Headed(MakeMoveReleased(h.n, h.l, q, head, new_head), matched)
      Reverted(g, matched) ==
        Released(MakeMoveReverted(g.n, g.l, g.ret), g.ret, matched)
      Spawned(it) == Reverted(MakeMoveSpawned(ns, ls, it, head), it.has_edge)
  IN Spawned(FindEdge(ns, ls, Edges(ns, ls, head), move))

\* NodeTree::TrimTreeAtHead assigning Node(nullptr, 0) to the head.
TrimTreeAtHeadW_Mut(ns, ls, q, head) ==
  LET tmp == ns[head].sibling_
      l == ns[head].low_node_
      r == IF l # Null THEN LowReleaseChildren(ns, ls, q, l)
           ELSE [n |-> ns, l |-> ls, q |-> q]
      d == DropHandle(r.n, r.l, head)
  IN [n |-> [d.n EXCEPT ![head] = [NewNode(Null, 0) EXCEPT !.sibling_ = tmp]],
      l |-> d.l, q |-> r.q]

\* void NodeTree::TrimTreeAtHead(): the children go to the queue, the head
\* is move-assigned a fresh Node (its handle on the LowNode is dropped by
\* the assignment, with no RemoveParent), the sibling is put back.
TrimTreeAtHeadW(ns, ls, q, head) ==
  LET tmp == ns[head].sibling_
      l == ns[head].low_node_
      r == IF l # Null THEN LowReleaseChildren(ns, ls, q, l)
           ELSE [n |-> ns, l |-> ls, q |-> q]
      d == DropHandle(r.n, r.l, head)
  IN [n |-> [d.n EXCEPT ![head] =
               [NewNode(ns[head].parent_, ns[head].index_) EXCEPT !.sibling_ = tmp]],
      l |-> d.l, q |-> r.q]


\* NodeTree::DeallocateTree dropping the tree without queueing it.
DeallocateTreeQ_Mut(q, g) == q
\* void NodeTree::DeallocateTree(): the queue; both pointers become null.
DeallocateTreeQ(q, g) == AddToGcQueue(q, g)

\* ------------------------------------------------------------------------
\* SpecTree: a NodeTree from its construction on, driven by the engine
\* thread (ResetToPosition, with its MakeMove and TrimTreeAtHead calls),
\* extended by the search between two calls of the engine (SetLowNode,
\* GetOrSpawnNode), with the worker of the NodeGarbageCollector running
\* beside them.  ResetToPosition is taken move by move, so that the worker
\* runs between two replayed moves; every other call is one step.
\* ------------------------------------------------------------------------
InitTree ==
  /\ InitCommon
  /\ nodes = [x \in NodeIds |-> FreeNode]
  /\ gamebegin_node_ = Null
  /\ current_head_ = Null
  /\ thr = <<>>
  /\ acct = NoAcct

TreeFrame == UNCHANGED <<iters, thr, acct>>

\* The engine thread is between two calls and the program is running.
MainIdle == aborted = "none" /\ ~stop_ /\ rs.pc = "idle"

\* The Nodes reachable from the game begin, and the Nodes the queue owns.
LiveTree(ns, ls, g) == Subtree(ns, ls, g)
QueueOwned(ns, ls, q) == Owned(ns, ls, Range(q))
SearchNodes == Subtree(nodes, lows, current_head_)

\* The edges of a LowNode made for a position with e legal moves.
MoveList(e) == [j \in 1..e |-> [move_ |-> j - 1, p_ |-> 0]]

\* The move is one MakeMove can be given at this head: any move where the
\* head has no LowNode yet, a move of its edges otherwise.
LegalMove(ns, ls, head, move) ==
  \/ ns[head].low_node_ = Null
  \/ FindEdge(ns, ls, Edges(ns, ls, head), move).has_edge

CanAllocate(ns, ls, need) ==
  /\ Cardinality(FreeNodeIds(ns)) >= need.n
  /\ Cardinality(FreeLowIds(ls)) >= need.l

RECURSIVE AdvanceTo(_, _, _, _)
AdvanceTo(ns, ls, it, i) ==
  IF it.current_idx_ >= i \/ ~it.has_edge THEN it
  ELSE AdvanceTo(ns, ls, Advance(ns, ls, it), i)

\* The search extends a Node: SetLowNode(std::make_shared<LowNode>(moves)).
SearchSetLowNode(x, e) ==
  /\ MainIdle
  /\ x \in SearchNodes
  /\ nodes[x].low_node_ = Null
  /\ FreeLowIds(lows) # {}
  /\ LET a == Lowest(FreeLowIds(lows))
         h == SetLowNodeHeap(nodes, [lows EXCEPT ![a] = NewLowNode(MoveList(e))], x, a)
     IN nodes' = h.n /\ lows' = h.l
  /\ UNCHANGED <<treeVars, gcVars, rs, aborted, last>>
  /\ TreeFrame

\* The search finds the position of a Node in the transposition table:
\* SetLowNode(l) with a LowNode other Nodes hold already.
SearchSetTransposition(x, l) ==
  /\ MainIdle
  /\ x \in SearchNodes
  /\ nodes[x].low_node_ = Null
  /\ l \in LiveLows
  /\ lows[l].num_parents_ < MaxParents
  /\ x \notin Owned(nodes, lows, {lows[l].child_} \ {Null})
  /\ LET h == SetLowNodeHeap(nodes, lows, x, l)
     IN nodes' = h.n /\ lows' = h.l
  /\ UNCHANGED <<treeVars, gcVars, rs, aborted, last>>
  /\ TreeFrame

\* The search materializes the child of edge i: GetOrSpawnNode(x).
SearchSpawn(x, i) ==
  /\ MainIdle
  /\ x \in SearchNodes
  /\ i < GetNumEdges(nodes, lows, x)
  /\ LET it == AdvanceTo(nodes, lows, Edges(nodes, lows, x), i)
     IN /\ WouldSpawn(nodes, lows, it)
        /\ FreeNodeIds(nodes) # {}
        /\ LET g == GetOrSpawn(nodes, lows, it, x)
           IN nodes' = g.n /\ lows' = g.l
  /\ UNCHANGED <<treeVars, gcVars, rs, aborted, last>>
  /\ TreeFrame

\* bool NodeTree::ResetToPosition(starting_fen, moves), up to its loop
\* (node.cc:599-619).  other_start: the starting position differs from the
\* one of the tree; count: moves.size().
ResetBegin(other_start, count) ==
  /\ MainIdle
  /\ gc.gc_mutex_ = "free"
  /\ LET dealloc == gamebegin_node_ # Null /\ other_start
         fresh == gamebegin_node_ = Null \/ dealloc
         g == IF fresh THEN Lowest(FreeNodeIds(nodes)) ELSE gamebegin_node_
         old_head == IF dealloc THEN Null ELSE current_head_
     IN /\ fresh => FreeNodeIds(nodes) # {}
        /\ subtrees_to_gc_' = IF dealloc
                                THEN DeallocateTreeQ(subtrees_to_gc_, gamebegin_node_)
                                ELSE subtrees_to_gc_
        /\ nodes' = IF fresh THEN [nodes EXCEPT ![g] = NewNode(Null, 0)] ELSE nodes
        /\ gamebegin_node_' = g
        /\ current_head_' = g
        /\ rs' = [pc |-> "replay", old_head |-> old_head,
                  seen_old_head |-> (g = old_head), todo |-> count,
                  old_freed |-> FALSE, genuine |-> (g = old_head)]
  /\ moves_' = <<>>
  /\ UNCHANGED <<lows, stop_, gc, aborted, last, iters, thr>>

\* One turn of the loop of ResetToPosition (node.cc:620-623): MakeMove and
\* the comparison of old_head with current_head_.  Once the Node old_head
\* points at is destroyed, the comparison with a Node allocated since gives
\* either answer: operator new may have handed out the address again.
ResetStep(move) ==
  /\ aborted = "none"
  /\ rs.pc = "replay"
  /\ rs.todo > 0
  /\ gc.gc_mutex_ = "free"
  /\ LegalMove(nodes, lows, current_head_, move)
  /\ CanAllocate(nodes, lows, MakeMoveNeeds(nodes, lows, current_head_, move))
  /\ \E w \in {MakeMoveW(nodes, lows, subtrees_to_gc_, current_head_, move)} :
        /\ nodes' = w.n /\ lows' = w.l /\ subtrees_to_gc_' = w.q
        /\ current_head_' = w.head
        /\ aborted' = w.ab
        /\ \E eq \in (IF rs.old_freed /\ w.head \notin LiveNodes
                        THEN BOOLEAN ELSE {rs.old_head = w.head}) :
             rs' = [rs EXCEPT !.seen_old_head = @ \/ eq,
                              !.todo = @ - 1,
                              !.genuine = @ \/ (~rs.old_freed /\ rs.old_head = w.head)]
  /\ moves_' = Append(moves_, move)
  /\ UNCHANGED <<gamebegin_node_, stop_, gc, last>>
  /\ TreeFrame

\* The end of ResetToPosition (node.cc:630-632): seen_old_head is returned.
ResetEnd ==
  /\ aborted = "none"
  /\ rs.pc = "replay"
  /\ rs.todo = 0
  /\ gc.gc_mutex_ = "free"
  /\ LET w == IF ~rs.seen_old_head
                THEN TrimTreeAtHeadW(nodes, lows, subtrees_to_gc_, current_head_)
                ELSE [n |-> nodes, l |-> lows, q |-> subtrees_to_gc_]
     IN nodes' = w.n /\ lows' = w.l /\ subtrees_to_gc_' = w.q
  /\ rs' = IdleRs
  /\ UNCHANGED <<treeVars, stop_, gc, aborted, last>>
  /\ TreeFrame

\* ~NodeGarbageCollector(): stop_.store(true); the join waits for GcStop.
Shutdown ==
  /\ MainIdle
  /\ stop_' = TRUE
  /\ UNCHANGED <<nodes, lows, treeVars, subtrees_to_gc_, gc, rs, aborted, last>>
  /\ TreeFrame

\* ------------------------------------------------------------------------
\* The worker of the NodeGarbageCollector (node.cc:74-99)
\* ------------------------------------------------------------------------

\* The history variable of ResetToPosition: old_head points at a Node that
\* this step destroys.
NoteFreed(D) ==
  IF rs.pc = "replay" /\ rs.old_head \in D THEN [rs EXCEPT !.old_freed = TRUE] ELSE rs

\* Worker(): the sleep is over, GarbageCollect() is entered.
WorkerWake ==
  /\ gc.pc = "sleep"
  /\ gc' = [gc EXCEPT !.pc = "collect"]
  /\ UNCHANGED <<nodes, lows, treeVars, subtrees_to_gc_, stop_, rs, aborted, last>>
  /\ TreeFrame

\* The worker looking at stop_ only once it has found the queue empty.
GcStop_Mut ==
  /\ gc.pc = "collect"
  /\ stop_
  /\ subtrees_to_gc_ = <<>>
  /\ gc' = [gc EXCEPT !.pc = "exited"]
  /\ UNCHANGED <<nodes, lows, treeVars, subtrees_to_gc_, stop_, rs, aborted, last>>
  /\ TreeFrame

\* The loops of GarbageCollect() and of Worker() see stop_: the thread ends.
GcStop ==
  /\ gc.pc = "collect"
  /\ stop_
  /\ gc' = [gc EXCEPT !.pc = "exited"]
  /\ UNCHANGED <<nodes, lows, treeVars, subtrees_to_gc_, stop_, rs, aborted, last>>
  /\ TreeFrame

\* GarbageCollect() finds the queue empty under the mutex and returns;
\* Worker() goes to sleep again.
GcPopEmpty ==
  /\ gc.pc = "collect"
  /\ ~stop_
  /\ gc.gc_mutex_ = "free"
  /\ subtrees_to_gc_ = <<>>
  /\ gc' = [gc EXCEPT !.pc = "sleep"]
  /\ UNCHANGED <<nodes, lows, treeVars, subtrees_to_gc_, stop_, rs, aborted, last>>
  /\ TreeFrame

\* GarbageCollect() under the mutex (node.cc:81-86): the last entry is moved
\* to node_to_gc and its LowNode is unset; the mutex is still held.
GcPop ==
  /\ gc.pc = "collect"
  /\ ~stop_
  /\ gc.gc_mutex_ = "free"
  /\ subtrees_to_gc_ # <<>>
  /\ LET node_to_gc == subtrees_to_gc_[Len(subtrees_to_gc_)]
         h == UnsetLowNodeHeap(nodes, lows, node_to_gc)
     IN /\ nodes' = h.n /\ lows' = h.l
        /\ rs' = NoteFreed(h.D.n)
        /\ gc' = [pc |-> "popped", node_to_gc |-> node_to_gc, gc_mutex_ |-> "worker"]
  /\ subtrees_to_gc_' = SubSeq(subtrees_to_gc_, 1, Len(subtrees_to_gc_) - 1)
  /\ UNCHANGED <<treeVars, stop_, aborted, last>>
  /\ TreeFrame

\* The end of the locked scope and of the turn of the loop (node.cc:87-88):
\* the mutex is released, then node_to_gc is destroyed.
GcRelease ==
  /\ gc.pc = "popped"
  /\ LET D == Doomed(nodes, lows, {gc.node_to_gc}, {})
         h == Destroyed(nodes, lows, D)
     IN /\ nodes' = h.n /\ lows' = h.l
        /\ rs' = NoteFreed(D.n)
  /\ gc' = [pc |-> "collect", node_to_gc |-> Null, gc_mutex_ |-> "free"]
  /\ UNCHANGED <<treeVars, subtrees_to_gc_, stop_, aborted, last>>
  /\ TreeFrame

\* The calls of ResetToPosition are counted, and bounded in SpecTree.
TreeResetBegin ==
  \E other_start \in BOOLEAN, count \in 0..MaxMoves :
    /\ acct.resets < MaxResets
    /\ ResetBegin(other_start, count)
    /\ acct' = [acct EXCEPT !.resets = @ + 1]

NextTree ==
  \/ \E x \in NodeIds, e \in 0..MaxEdges : SearchSetLowNode(x, e)
  \/ \E x \in NodeIds, l \in LowIds : SearchSetTransposition(x, l)
  \/ \E x \in NodeIds, i \in 0..(MaxEdges - 1) : SearchSpawn(x, i)
  \/ TreeResetBegin
  \/ \E move \in Moves : ResetStep(move)
  \/ ResetEnd
  \/ WorkerWake
  \/ GcPopEmpty
  \/ GcPop
  \/ GcRelease

SpecTree == InitTree /\ [][NextTree]_vars

\* ------------------------------------------------------------------------
\* Properties of the NodeTree and of the collector
\* ------------------------------------------------------------------------

\* C4 (parent count).  In every state reached by SetLowNode, MakeMove,
\* TrimTreeAtHead and the destruction of queued subtrees by the collector
\* (which calls UnsetLowNode), the num_parents_ of every LowNode is the
\* number of Nodes that hold a shared handle on it.
C4_NumParentsIsHolders ==
  \A l \in LowIds :
    lows[l].live => lows[l].num_parents_ = Cardinality(Holders(nodes, l))

\* A step of MakeMove (moves_.push_back is done by MakeMove alone), the
\* move made, and the iterator on the edge of the move.
MakeMoveStep == Len(moves_') = Len(moves_) + 1
MoveMade == moves_'[Len(moves_')]
EdgeOfMove == FindEdge(nodes, lows, Edges(nodes, lows, current_head_), MoveMade)
MatchedStep == /\ MakeMoveStep
               /\ aborted' = "none"
               /\ nodes[current_head_].low_node_ # Null
               /\ EdgeOfMove.has_edge

\* The children of the old head other than the new head, with all below.
OtherChildren ==
  Range(ChildList(nodes, lows, nodes[current_head_].low_node_)) \ {current_head_'}
OtherSubtrees == UNION {Subtree(nodes, lows, c) : c \in OtherChildren}

\* Every Node is in the live tree, owned by the queue, or owned by the
\* entry the worker has popped.
NoneLost ==
  LiveNodes = LiveTree(nodes, lows, gamebegin_node_)
                \cup QueueOwned(nodes, lows, subtrees_to_gc_)
                \cup Owned(nodes, lows, {gc.node_to_gc} \ {Null})

\* What C5 says of the new head and of the other children.
RerootedAtEdge ==
  /\ nodes'[current_head_'].index_ = EdgeOfMove.current_idx_
  /\ nodes'[current_head_'].parent_ = nodes[current_head_].low_node_
  /\ ChildList(nodes', lows', nodes[current_head_].low_node_) = <<current_head_'>>
  /\ OtherSubtrees \subseteq QueueOwned(nodes', lows', subtrees_to_gc_')
  /\ NoneLost'

\* C5 as stated (re-rooting partition).  After a MakeMove(m) where m
\* matches edge i of the head: the new head is the Node of index i under
\* the old head and its only child, the other children with their
\* descendants are owned by the queue, no Node is both in the live tree
\* and owned by the queue, none is lost, and the live tree has lost as many
\* Nodes as the other children's subtrees hold.
C5_AsStated ==
  [][MatchedStep =>
       /\ RerootedAtEdge
       /\ LiveTree(nodes', lows', gamebegin_node_')
            \cap QueueOwned(nodes', lows', subtrees_to_gc_') = {}
       /\ Cardinality(LiveTree(nodes, lows, gamebegin_node_) \cup {current_head_'})
            - Cardinality(LiveTree(nodes', lows', gamebegin_node_'))
          = Cardinality(OtherSubtrees)]_vars

\* A LowNode held both from the live tree and from the queue.
SharedWithQueue(ns, ls, g, q, l) ==
  /\ Holders(ns, l) \cap LiveTree(ns, ls, g) # {}
  /\ Holders(ns, l) \cap QueueOwned(ns, ls, q) # {}

\* C5 (re-rooting partition, with transpositions).  After a MakeMove(m)
\* where m matches edge i of the head: the new head is the Node of index i
\* under the old head and its only child, the other children with their
\* descendants are owned by the queue, none is lost; a Node is both in the
\* live tree and owned by the queue only below a LowNode that is held from
\* both; the live tree has lost the Nodes of the other children's subtrees
\* that are not also below the new head, and no other.
C5_ReRootingPartition ==
  [][MatchedStep =>
       /\ RerootedAtEdge
       /\ \A y \in LiveTree(nodes', lows', gamebegin_node_')
                     \cap QueueOwned(nodes', lows', subtrees_to_gc_') :
            \E l \in LowIds :
              /\ lows'[l].live
              /\ y \in Owned(nodes', lows', {lows'[l].child_} \ {Null})
              /\ SharedWithQueue(nodes', lows', gamebegin_node_', subtrees_to_gc_', l)
       /\ LiveTree(nodes', lows', gamebegin_node_')
            = (LiveTree(nodes, lows, gamebegin_node_) \cup {current_head_'})
                \ (OtherSubtrees \ Subtree(nodes', lows', current_head_'))]_vars

\* A move has been made on an edge of a head with several edges, another
\* child went to the queue, and a Node is both below the new head and below
\* the queued child.
C5_Witness ==
  /\ moves_ # <<>>
  /\ current_head_ # Null
  /\ nodes[current_head_].parent_ # Null
  /\ Len(lows[nodes[current_head_].parent_].edges_) > 1
  /\ subtrees_to_gc_ # <<>>
  /\ Below(nodes, lows, current_head_)
       \cap QueueOwned(nodes, lows, subtrees_to_gc_) # {}

\* C7 (no destruction under the mutex).  No step of the worker that leaves
\* gc_mutex_ held destroys a Node or a LowNode.
C7_NoDestructionUnderMutex ==
  [][gc'.gc_mutex_ = "worker" =>
       /\ \A x \in NodeIds : nodes[x].live => nodes'[x].live
       /\ \A l \in LowIds : lows[l].live => lows'[l].live]_vars

\* C9 (result of ResetToPosition).  ResetToPosition returns true exactly
\* when the Node that was the head before the call is the game begin or
\* has become the head after a replayed move; when it returns false the
\* new head is trimmed (n = 0, no LowNode), when it returns true the new
\* head is left as it was.
C9_ReturnsTrueIffOldHeadReused ==
  [][(rs.pc = "replay" /\ rs'.pc = "idle") =>
       /\ rs.seen_old_head <=> rs.genuine
       /\ ~rs.seen_old_head =>
            /\ nodes'[current_head_'].n_ = 0
            /\ nodes'[current_head_'].low_node_ = Null
       /\ rs.seen_old_head => nodes'[current_head_'] = nodes[current_head_]]_vars

\* ------------------------------------------------------------------------
\* SpecStats: a NodeTree set to a position, the search backing up visits
\* and marking terminals, the engine making moves; the worker sleeps.
\* ------------------------------------------------------------------------
StatsFrame == UNCHANGED <<treeVars, gcVars, rs, iters, thr>>

\* The Nodes the search visits and marks: those below the head.
VisitedNodes == Below(nodes, lows, current_head_)

\* bool Node::TryStartScoreUpdate() on a Node of the search, not refused;
\* the search has one worker, which backs up a visit before the next.
StatsTryStart ==
  \E x \in NodeIds :
    /\ MainIdle
    /\ x \in VisitedNodes
    /\ acct.started < MaxVisits
    /\ \A y \in NodeIds : nodes[y].n_in_flight_ = 0
    /\ ~GateClosed(nodes[x])
    /\ nodes' = [nodes EXCEPT ![x] = StartedNode(@)]
    /\ acct' = [acct EXCEPT !.started = @ + 1]
    /\ UNCHANGED <<lows, aborted, last>>
    /\ StatsFrame

\* The value the search backs up on a Node: the evaluation of its position,
\* one of Evals for each move that leads to it.
EvalOf(nd) ==
  IF nd.index_ = 0 THEN <<(<<1, 4>>), (<<1, 8>>), (<<20, 1>>)>>
  ELSE <<(<<-1, 1>>), (<<0, 1>>), (<<2, 1>>)>>

\* void Node::FinalizeScoreUpdate(v, d, m, 1) on a Node with a visit in flight.
StatsFinalize ==
  \E x \in NodeIds :
    /\ MainIdle
    /\ x \in VisitedNodes
    /\ nodes[x].n_in_flight_ >= 1
    /\ nodes' = [nodes EXCEPT ![x] =
                  FinalizedNode(@, EvalOf(@)[1], EvalOf(@)[2], EvalOf(@)[3], 1)]
    /\ UNCHANGED <<lows, aborted, last, acct>>
    /\ StatsFrame

\* What the search finds a Node or a position to be: (result, type).
TerminalKinds == {<<"DRAW", "TwoFold">>, <<"BLACK_WON", "EndOfGame">>}

\* The Nodes and LowNodes marked terminal.
TerminalCount ==
  Cardinality({x \in NodeIds : nodes[x].live /\ IsTerminal(nodes[x])})
    + Cardinality({l \in LowIds : lows[l].live /\ IsTerminal(lows[l])})

\* The search finds a Node terminal: Node::MakeTerminal(result, 1, type).
SearchMakeTerminal(x, kind) ==
  /\ MainIdle
  /\ x \in VisitedNodes
  /\ ~IsTerminal(nodes[x])
  /\ TerminalCount < MaxTerminals
  /\ \E h \in {NodeMakeTerminalHeap(nodes, lows, x, kind[1], 1, kind[2])} :
       nodes' = h.n /\ lows' = h.l
  /\ UNCHANGED <<aborted, acct, last>>
  /\ StatsFrame

\* The search finds a position terminal: LowNode::MakeTerminal(result, 0, type).
SearchLowMakeTerminal(x, kind) ==
  /\ MainIdle
  /\ x \in VisitedNodes
  /\ nodes[x].low_node_ # Null
  /\ ~IsTerminal(lows[nodes[x].low_node_])
  /\ TerminalCount < MaxTerminals
  /\ lows' = [lows EXCEPT ![nodes[x].low_node_] = LowMadeTerminal(@, kind[1], 0, kind[2])]
  /\ UNCHANGED <<nodes, aborted, acct, last>>
  /\ StatsFrame

\* void NodeTree::MakeMove(Move move), called by the engine.
TreeMakeMove(move) ==
  /\ MainIdle
  /\ current_head_ # Null
  /\ gc.gc_mutex_ = "free"
  /\ Len(moves_) < MaxMoves
  /\ LegalMove(nodes, lows, current_head_, move)
  /\ CanAllocate(nodes, lows, MakeMoveNeeds(nodes, lows, current_head_, move))
  /\ \E w \in {MakeMoveW(nodes, lows, subtrees_to_gc_, current_head_, move)} :
        /\ nodes' = w.n /\ lows' = w.l /\ subtrees_to_gc_' = w.q
        /\ current_head_' = w.head
        /\ aborted' = w.ab
  /\ moves_' = Append(moves_, move)
  /\ UNCHANGED <<gamebegin_node_, stop_, gc, rs, last>>
  /\ TreeFrame

\* The tree after the first ResetToPosition(fen, {}): the game begin alone.
InitStats ==
  /\ InitCommon
  /\ nodes = [x \in NodeIds |-> IF x = 1 THEN NewNode(Null, 0) ELSE FreeNode]
  /\ gamebegin_node_ = 1
  /\ current_head_ = 1
  /\ thr = <<>>
  /\ acct = NoAcct

NextStats ==
  \/ \E x \in NodeIds, e \in 0..MaxEdges : SearchSetLowNode(x, e)
  \/ \E x \in NodeIds, i \in 0..(MaxEdges - 1) : SearchSpawn(x, i)
  \/ StatsTryStart
  \/ StatsFinalize
  \/ \E x \in NodeIds, kind \in TerminalKinds : SearchMakeTerminal(x, kind)
  \/ \E x \in NodeIds, kind \in TerminalKinds : SearchLowMakeTerminal(x, kind)
  \/ \E move \in Moves : TreeMakeMove(move)

SpecStats == InitStats /\ [][NextStats]_vars

\* What C6 speaks of: n, n_in_flight, wl, d, m, terminal type and bounds.
StatsOf(r) ==
  <<r.n_, r.n_in_flight_, r.wl_, r.d_, r.m_, r.terminal_type_,
    r.lower_bound_, r.upper_bound_>>

\* The Node of the edge of the move before the call, if there is one.
ChosenChild == EdgeOfMove.node_
ChosenStep == MatchedStep /\ ChosenChild # Null

\* C6 as stated (stats kept by MakeMove).  MakeMove(m) leaves the stats of
\* the chosen child and of every Node and LowNode below it as they were,
\* the chosen child being terminal or not.
C6_AsStated ==
  [][ChosenStep =>
       /\ \A y \in Subtree(nodes, lows, ChosenChild) :
            StatsOf(nodes'[y]) = StatsOf(nodes[y])
       /\ \A l \in LowsOf(nodes, Subtree(nodes, lows, ChosenChild)) :
            StatsOf(lows'[l]) = StatsOf(lows[l])]_vars

\* C6 (stats kept by MakeMove, terminals reverted).  MakeMove(m) leaves
\* the stats of every Node below the chosen child and of their LowNodes as
\* they were; it leaves those of the chosen child and of its LowNode as
\* they were when the chosen child is not terminal; a terminal chosen
\* child is made non-terminal, with its LowNode, and keeps its
\* n_in_flight.
C6_StatsKeptUnlessTerminal ==
  [][ChosenStep =>
       /\ \A y \in Below(nodes, lows, ChosenChild) :
            StatsOf(nodes'[y]) = StatsOf(nodes[y])
       /\ \A l \in LowsOf(nodes, Below(nodes, lows, ChosenChild)) :
            StatsOf(lows'[l]) = StatsOf(lows[l])
       /\ nodes[ChosenChild].terminal_type_ = "NonTerminal" =>
            /\ StatsOf(nodes'[ChosenChild]) = StatsOf(nodes[ChosenChild])
            /\ \A l \in LowsOf(nodes, {ChosenChild}) :
                 StatsOf(lows'[l]) = StatsOf(lows[l])
       /\ nodes[ChosenChild].terminal_type_ # "NonTerminal" =>
            /\ nodes'[ChosenChild].terminal_type_ = "NonTerminal"
            /\ nodes'[ChosenChild].n_in_flight_ = nodes[ChosenChild].n_in_flight_
            /\ \A l \in LowsOf(nodes, {ChosenChild}) :
                 lows'[l].terminal_type_ = "NonTerminal"]_vars

\* A move has been made to a child that had visits, with a visited Node
\* below it.
C6_Witness ==
  /\ moves_ # <<>>
  /\ nodes[current_head_].parent_ # Null
  /\ Len(lows[nodes[current_head_].parent_].edges_) > 1
  /\ nodes[current_head_].n_ > 0
  /\ \E y \in Below(nodes, lows, current_head_) : nodes[y].n_ > 0

\* ------------------------------------------------------------------------
\* SpecGc: the engine resets the NodeTree again and again, the worker of
\* the collector is scheduled fairly, the program may shut down.
\* ------------------------------------------------------------------------
GcResetBegin ==
  \E other_start \in BOOLEAN, count \in 0..(MaxMoves - 1) :
    /\ ResetBegin(other_start, count)
    /\ UNCHANGED acct

GcWorker == WorkerWake \/ GcStop \/ GcPopEmpty \/ GcPop \/ GcRelease

NextGc ==
  \/ GcResetBegin
  \/ \E move \in Moves : ResetStep(move)
  \/ ResetEnd
  \/ Shutdown
  \/ WorkerWake
  \/ GcStop
  \/ GcPopEmpty
  \/ GcPop
  \/ GcRelease

SpecGc == InitTree /\ [][NextGc]_vars /\ WF_vars(GcWorker)

Queued(x) == x \in Range(subtrees_to_gc_)

\* The entries of the queue are distinct Nodes, alive, outside the live
\* tree; the entry the worker holds is alive and out of the queue; every
\* Node is owned by the tree, by the queue or by the worker.
QueueSound ==
  /\ \A i, j \in DOMAIN subtrees_to_gc_ :
       i # j => subtrees_to_gc_[i] # subtrees_to_gc_[j]
  /\ \A x \in Range(subtrees_to_gc_) :
       /\ nodes[x].live
       /\ x \notin LiveTree(nodes, lows, gamebegin_node_)
       /\ x # gc.node_to_gc
  /\ gc.node_to_gc # Null => nodes[gc.node_to_gc].live
  /\ NoneLost

\* A call of AddToGcQueue with a Node.
AddStep == Len(subtrees_to_gc_') > Len(subtrees_to_gc_)

\* C8 as stated (every queued subtree is destroyed).  The queue is sound,
\* and a Node handed to AddToGcQueue is destroyed later on, under fair
\* scheduling of the worker, unless shutdown is requested.
C8_AsStated ==
  /\ []QueueSound
  /\ \A x \in NodeIds : Queued(x) ~> (~nodes[x].live \/ stop_)

\* C8 (every queued subtree is destroyed once the adds stop).  The queue
\* is sound, and a Node handed to AddToGcQueue is destroyed later on, under
\* fair scheduling of the worker, unless shutdown is requested or
\* AddToGcQueue is called again and again for ever: the worker takes the
\* newest entry first.
C8_DestroyedUnlessAddsGoOn ==
  /\ []QueueSound
  /\ \A x \in NodeIds :
       \/ Queued(x) ~> (~nodes[x].live \/ stop_)
       \/ []<><<AddStep>>_vars

\* An entry waits in the queue below a newer one while the worker holds a
\* third.
C8_Witness ==
  /\ Len(subtrees_to_gc_) >= 2
  /\ gc.pc = "popped"
  /\ ~stop_


\* ------------------------------------------------------------------------
\* SpecIter: two search workers, each with an Edge_Iterator over the edges
\* of the same parent, take turns at Edges(), operator++ and
\* GetOrSpawnNode, one whole call at a time (node.h:662-665).
\* ------------------------------------------------------------------------
IterWorkers == {1, 2}
IterParent == 1
IterLow == 1
IterEdges == MaxEdges + 1

InitIter ==
  /\ nodes = [x \in NodeIds |->
                IF x = IterParent
                  THEN [NewNode(Null, 0) EXCEPT !.low_node_ = IterLow]
                  ELSE FreeNode]
  /\ lows = [l \in LowIds |->
               IF l = IterLow
                 THEN AddedParent(NewLowNode(MoveList(IterEdges)), 0)
                 ELSE FreeLowNode]
  /\ gamebegin_node_ = IterParent
  /\ current_head_ = IterParent
  /\ moves_ = <<>>
  /\ subtrees_to_gc_ = <<>>
  /\ stop_ = FALSE
  /\ gc = IdleGc
  /\ rs = IdleRs
  /\ iters = [t \in IterWorkers |->
                Edges([x \in NodeIds |->
                         IF x = IterParent
                           THEN [NewNode(Null, 0) EXCEPT !.low_node_ = IterLow]
                           ELSE FreeNode],
                      [l \in LowIds |->
                         IF l = IterLow
                           THEN AddedParent(NewLowNode(MoveList(IterEdges)), 0)
                           ELSE FreeLowNode],
                      IterParent)]
  /\ thr = <<>>
  /\ aborted = "none"
  /\ last = Last("Init", Null, 0, Null)
  /\ acct = NoAcct

IterFrame ==
  UNCHANGED <<treeVars, gcVars, rs, thr, aborted, acct>>

\* for (auto& edge : parent->Edges()): a worker starts over.
IterBegin(t) ==
  /\ iters' = [iters EXCEPT ![t] = Edges(nodes, lows, IterParent)]
  /\ last' = Last("Edges", t, 0, Null)
  /\ UNCHANGED <<nodes, lows>>
  /\ IterFrame

\* ++iterator, on an iterator that is not end().
IterAdvance(t) ==
  /\ iters[t].has_edge
  /\ iters' = [iters EXCEPT ![t] = Advance(nodes, lows, @)]
  /\ last' = Last("operator++", t, iters[t].current_idx_ + 1, Null)
  /\ UNCHANGED <<nodes, lows>>
  /\ IterFrame

\* iterator.GetOrSpawnNode(parent), on an iterator that is not end().
IterGetOrSpawn(t) ==
  /\ iters[t].has_edge
  /\ WouldSpawn(nodes, lows, iters[t]) => FreeNodeIds(nodes) # {}
  /\ \E g \in {GetOrSpawn(nodes, lows, iters[t], IterParent)} :
       /\ nodes' = g.n
       /\ lows' = g.l
       /\ iters' = [iters EXCEPT ![t] = g.it]
       /\ last' = Last("GetOrSpawnNode", t, g.it.current_idx_, g.ret)
  /\ IterFrame

NextIter ==
  \/ \E t \in IterWorkers : IterBegin(t)
  \/ \E t \in IterWorkers : IterAdvance(t)
  \/ \E t \in IterWorkers : IterGetOrSpawn(t)

SpecIter == InitIter /\ [][NextIter]_vars

\* The Nodes spawned for the edges of the parent, and its child list.
IterSpawned == LiveNodes \ {IterParent}
IterChildren == ChildList(nodes, lows, IterLow)

\* C10 (two Edge iterators over the same parent LowNode, interleaving
\* advance and GetOrSpawnNode, each call atomic): the child list of the
\* parent is strictly increasing by index and holds every spawned Node
\* exactly once, and a GetOrSpawnNode call returned a Node whose index is
\* the current edge index of the iterator it was called on.
C10_ChildListOrdered ==
  /\ \A i, j \in 1..Len(IterChildren) :
       i < j => nodes[IterChildren[i]].index_ < nodes[IterChildren[j]].index_
  /\ Range(IterChildren) = IterSpawned
  /\ Len(IterChildren) = Cardinality(IterSpawned)
  /\ last.op = "GetOrSpawnNode" =>
       /\ last.ret \in IterSpawned
       /\ nodes[last.ret].index_ = iters[last.x].current_idx_
       /\ nodes[last.ret].index_ = last.k
       /\ nodes[last.ret].parent_ = IterLow

\* A GetOrSpawnNode call has just put a Node between two Nodes spawned
\* before it, the first of them by the other worker's later edge.
C10_Witness ==
  /\ last.op = "GetOrSpawnNode"
  /\ Len(IterChildren) = 3
  /\ IterChildren[2] = last.ret
  /\ IterChildren[1] > IterChildren[3]
  /\ IterChildren[2] > IterChildren[1]


\* ------------------------------------------------------------------------
\* The child lists of all LowNodes
\* ------------------------------------------------------------------------

\* C11 (child lists after GetOrSpawnNode, CreateSingleChildNode, MakeMove,
\* TrimTreeAtHead): the child list of every LowNode is strictly increasing
\* by index, every index is below the number of edges, and the parent_ of
\* every child is that LowNode.
C11_ChildListsSorted ==
  \A l \in LiveLows :
    LET ch == ChildList(nodes, lows, l)
    IN /\ \A i, j \in 1..Len(ch) :
            i < j => nodes[ch[i]].index_ < nodes[ch[j]].index_
       /\ \A i \in 1..Len(ch) :
            /\ nodes[ch[i]].live
            /\ nodes[ch[i]].index_ < Len(lows[l].edges_)
            /\ nodes[ch[i]].parent_ = l

\* Moves have been made, the head was trimmed or a single child created,
\* and a LowNode has two children.
C11_Witness ==
  /\ moves_ # <<>>
  /\ rs.pc = "idle"
  /\ \E l \in LiveLows : Len(ChildList(nodes, lows, l)) >= 2
  /\ \E l \in LiveLows : Len(lows[l].edges_) = 1 /\ lows[l].child_ # Null


\* ------------------------------------------------------------------------
\* for (auto& edge : node->Edges()): what the loop sees
\* ------------------------------------------------------------------------

\* The pairs (edge index, Node) the loop body is given, from the iterator
\* it on: operator!= against end(), operator*, operator++.
RECURSIVE IterateFrom(_, _, _)
IterateFrom(ns, ls, it) ==
  IF ~it.has_edge THEN <<>>
  ELSE <<[idx |-> it.current_idx_, node |-> it.node_]>>
         \o IterateFrom(ns, ls, Advance(ns, ls, it))

Iterate(ns, ls, x) == IterateFrom(ns, ls, Edges(ns, ls, x))

\* The children of Node x that have index i.
ChildrenAt(x, i) ==
  {c \in Range(ChildList(nodes, lows, nodes[x].low_node_)) : nodes[c].index_ = i}

\* C12 (iteration over Edges()): the loop visits the edge indices
\* 0 .. num_edges - 1 once each in ascending order; at index i it yields a
\* Node exactly when the child list holds a Node of index i, and then that
\* Node; on a Node without LowNode or with zero edges it visits nothing.
C12_IterationVisitsEveryEdge ==
  \A x \in LiveNodes :
    LET seen == Iterate(nodes, lows, x)
        num_edges == IF nodes[x].low_node_ = Null THEN 0
                     ELSE Len(lows[nodes[x].low_node_].edges_)
    IN /\ Len(seen) = num_edges
       /\ \A k \in 1..Len(seen) :
            /\ seen[k].idx = k - 1
            /\ IF ChildrenAt(x, k - 1) = {} THEN seen[k].node = Null
               ELSE seen[k].node \in ChildrenAt(x, k - 1)

\* A Node whose first edge has no Node and whose second has one, and that
\* Node has a LowNode without edges.
C12_Witness ==
  \E x \in LiveNodes :
    /\ Len(Iterate(nodes, lows, x)) = 2
    /\ Iterate(nodes, lows, x)[1].node = Null
    /\ Iterate(nodes, lows, x)[2].node # Null
    /\ nodes[Iterate(nodes, lows, x)[2].node].low_node_ # Null
    /\ Iterate(nodes, lows, Iterate(nodes, lows, x)[2].node) = <<>>


\* ------------------------------------------------------------------------
\* SpecRevert: a Node with a LowNode and the children the search spawns
\* under it; visits are backed up on the Nodes and on the LowNode, Nodes
\* and LowNode are made terminal and not terminal again, terminal visits
\* are reverted.  Every call is one step.
\* ------------------------------------------------------------------------

\* void LowNode::FinalizeScoreUpdate(float v, float d, float m, int multivisit)
LowFinalized(lw, v, d, m, k) ==
  [lw EXCEPT !.wl_ = RAdd(@, RDivInt(RMulInt(RSub(v, @), k), lw.n_ + k)),
             !.d_ = RAdd(@, RDivInt(RMulInt(RSub(d, @), k), lw.n_ + k)),
             !.m_ = RAdd(@, RDivInt(RMulInt(RSub(m, @), k), lw.n_ + k)),
             !.n_ = @ + k]

\* A uint32_t as its two 16-bit halves <<high, low>>.
Half == 65536
U32(i) == <<(i \div Half) % Half, i % Half>>
\* a - b on uint32_t.
Sub32(a, b) ==
  IF a[2] >= b[2] THEN <<(a[1] - b[1] + Half) % Half, a[2] - b[2]>>
  ELSE <<(a[1] - b[1] - 1 + Half) % Half, a[2] - b[2] + Half>>
\* An int converted to unsigned, as the usual arithmetic conversions do.
IntAsU32(k) == IF k >= 0 THEN U32(k) ELSE Sub32(<<0, 0>>, U32(-k))
\* The uint32_t converted to int is <= 0.
NonPositive32(a) == a = <<0, 0>> \/ a[1] >= Half \div 2
\* The uint32_t below 2^31 as a number.
Value32(a) == a[1] * Half + a[2]

\* void Node::RevertTerminalVisits(float v, float d, float m, int multivisit)
\* on a Node nd whose n_ is the uint32_t n: const int n_new = n_ - multivisit;
\* the reset if n_new <= 0, else Q and M recomputed and n_ -= multivisit.
\* Gives the Node's other fields and its n_.
RevertedWide(nd, n, v, d, m, k) ==
  IF NonPositive32(Sub32(n, IntAsU32(k)))
    THEN [nd |-> [nd EXCEPT !.wl_ = RInt(0), !.d_ = RInt(1), !.m_ = RInt(0)],
          n |-> <<0, 0>>]
    ELSE [nd |-> [nd EXCEPT
                    !.wl_ = RSub(@, RDivInt(RMulInt(RSub(v, @), k),
                                            Value32(Sub32(n, IntAsU32(k))))),
                    !.d_ = RSub(@, RDivInt(RMulInt(RSub(d, @), k),
                                           Value32(Sub32(n, IntAsU32(k))))),
                    !.m_ = RSub(@, RDivInt(RMulInt(RSub(m, @), k),
                                           Value32(Sub32(n, IntAsU32(k)))))],
          n |-> Sub32(n, IntAsU32(k))]

\* The same on a Node of the model, whose n_ is a number.
RevertedNode(nd, v, d, m, k) ==
  [RevertedWide(nd, U32(nd.n_), v, d, m, k).nd EXCEPT
     !.n_ = Value32(RevertedWide(nd, U32(nd.n_), v, d, m, k).n)]

\* Visits the search backs up in all, and its other calls in all.
MaxRevVisits == 2
MaxRevCalls == 2

\* Values a visit backs up, (v, d, m), each a float: 1/2 and the next float
\* above 1/2.
RevEvals == {<<(<<1, 2>>), (<<1, 8>>), (<<20, 1>>)>>,
             <<(<<8388609, 16777216>>), (<<1, 4>>), (<<3, 1>>)>>}

\* What a visit backs up on r: a terminal's own value, else the evaluation.
RevValue(r, e) == IF IsTerminal(r) THEN <<ToFloat(r.wl_), r.d_, r.m_>> ELSE e

\* The edges of the LowNode with the priors the search gave them:
\* SetP(0.5f), SetP(0.25f), ...
RevEdges ==
  [j \in 1..MaxEdges |->
     [MoveList(MaxEdges)[j] EXCEPT !.p_ = EncodeP(OneBits - j * 8388608)]]

RevRoot == 1
RevLow == 1

InitRevert ==
  /\ moves_ = <<>>
  /\ subtrees_to_gc_ = <<>>
  /\ stop_ = FALSE
  /\ gc = IdleGc
  /\ rs = IdleRs
  /\ iters = <<>>
  /\ aborted = "none"
  /\ last = Last("Init", Null, 0, Null)
  /\ nodes = [x \in NodeIds |->
                IF x = RevRoot
                  THEN [NewNode(Null, 0) EXCEPT !.low_node_ = RevLow]
                  ELSE FreeNode]
  /\ lows = [l \in LowIds |->
               IF l = RevLow
                 THEN AddedParent(NewLowNode(RevEdges), 0)
                 ELSE FreeLowNode]
  /\ gamebegin_node_ = RevRoot
  /\ current_head_ = RevRoot
  /\ thr = <<>>
  /\ acct = NoAcct

RevFrame == UNCHANGED <<treeVars, gcVars, rs, iters, thr, aborted>>

\* GetOrSpawnNode for edge i of the root.
RevSpawn(i) ==
  /\ SearchSpawn(RevRoot, i)

\* A visit of a child x of the root: TryStartScoreUpdate, then
\* FinalizeScoreUpdate(v, d, m, 1).
RevVisit(x, e) ==
  /\ x \in LiveNodes \ {RevRoot}
  /\ acct.started < MaxRevVisits
  /\ ~GateClosed(nodes[x])
  /\ \E b \in {RevValue(nodes[x], e)} :
       nodes' = [nodes EXCEPT ![x] = FinalizedNode(StartedNode(@), b[1], b[2], b[3], 1)]
  /\ acct' = [acct EXCEPT !.started = @ + 1, !.finalized = @ + 1]
  /\ last' = Last("FinalizeScoreUpdate", x, 1, Null)
  /\ UNCHANGED lows
  /\ RevFrame

\* LowNode::FinalizeScoreUpdate(v, d, m, 1) on the LowNode of the root.
RevLowVisit(e) ==
  /\ lows[RevLow].n_ < MaxRevVisits
  /\ \E b \in {RevValue(lows[RevLow], e)} :
       lows' = [lows EXCEPT ![RevLow] = LowFinalized(@, b[1], b[2], b[3], 1)]
  /\ last' = Last("LowNode::FinalizeScoreUpdate", RevLow, 1, Null)
  /\ UNCHANGED <<nodes, acct>>
  /\ RevFrame

\* One more call that marks, unmarks or reverts.
RevCall ==
  /\ acct.calls < MaxRevCalls
  /\ acct' = [acct EXCEPT !.calls = @ + 1]

\* Node::MakeTerminal(result, 1, type)
RevMakeTerminal(x, kind) ==
  /\ x \in LiveNodes
  /\ RevCall
  /\ \E h \in {NodeMakeTerminalHeap(nodes, lows, x, kind[1], 1, kind[2])} :
       nodes' = h.n /\ lows' = h.l
  /\ last' = Last("MakeTerminal", x, kind, Null)
  /\ RevFrame

\* LowNode::MakeTerminal(result, 0, type)
RevLowMakeTerminal(kind) ==
  /\ RevCall
  /\ lows' = [lows EXCEPT ![RevLow] = LowMadeTerminal(@, kind[1], 0, kind[2])]
  /\ last' = Last("LowNode::MakeTerminal", RevLow, kind, Null)
  /\ UNCHANGED nodes
  /\ RevFrame

\* Node::MakeNotTerminal(also_low_node)
RevMakeNotTerminal(x, also_low_node) ==
  /\ x \in LiveNodes
  /\ RevCall
  /\ \E h \in {NodeMakeNotTerminalHeap(nodes, lows, x, also_low_node)} :
       nodes' = h.n /\ lows' = h.l
  /\ last' = Last("MakeNotTerminal", x, also_low_node, Null)
  /\ RevFrame

\* LowNode::MakeNotTerminal(node) with the root as node.
RevLowMakeNotTerminal ==
  /\ RevCall
  /\ lows' = [lows EXCEPT ![RevLow] = LowMadeNotTerminal(nodes, lows, RevLow, RevRoot)]
  /\ last' = Last("LowNode::MakeNotTerminal", RevLow, RevRoot, Null)
  /\ UNCHANGED nodes
  /\ RevFrame

\* Node::RevertTerminalVisits(v, d, m, k)
RevRevert(x, e, k) ==
  /\ x \in LiveNodes
  /\ RevCall
  /\ nodes' = [nodes EXCEPT ![x] = RevertedNode(@, e[1], e[2], e[3], k)]
  /\ last' = Last("RevertTerminalVisits", x, k, Null)
  /\ UNCHANGED lows
  /\ RevFrame

TerminalArgs ==
  {<<"DRAW", "TwoFold">>, <<"BLACK_WON", "EndOfGame">>, <<"BLACK_WON", "TwoFold">>,
   <<"WHITE_WON", "Tablebase">>}

NextRevert ==
  \/ \E i \in 0..(MaxEdges - 1) : RevSpawn(i)
  \/ \E x \in NodeIds, e \in RevEvals : RevVisit(x, e)
  \/ \E e \in RevEvals : RevLowVisit(e)
  \/ \E x \in NodeIds, kind \in TerminalArgs : RevMakeTerminal(x, kind)
  \/ \E kind \in TerminalArgs : RevLowMakeTerminal(kind)
  \/ \E x \in NodeIds, also_low_node \in BOOLEAN : RevMakeNotTerminal(x, also_low_node)
  \/ RevLowMakeNotTerminal
  \/ \E x \in NodeIds, e \in RevEvals, k \in 1..MaxRevVisits : RevRevert(x, e, k)

SpecRevert == InitRevert /\ [][NextRevert]_vars

\* A step that is the call op.
CallStep(op) == last'.op = op /\ acct'.calls = acct.calls + 1

\* A step that is the call Node::MakeNotTerminal on a terminal Node with a
\* LowNode.
RevertStep ==
  /\ CallStep("MakeNotTerminal")
  /\ IsTerminal(nodes[last'.x])
  /\ nodes[last'.x].low_node_ # Null

\* C13 (Node reverted from its LowNode).  After Node::MakeNotTerminal on a
\* terminal Node with a LowNode, the Node's wl is the negation of the
\* LowNode's wl, its m the LowNode's m plus 1, its d and n the LowNode's,
\* its bounds the LowNode's negated and swapped; the LowNode's values are
\* those after the call.
C13_NodeMirrorsLowNode ==
  [][RevertStep =>
       \E x \in {last'.x} : \E l \in {nodes[x].low_node_} :
         /\ nodes'[x].wl_ = RNeg(lows'[l].wl_)
         /\ nodes'[x].m_ = RAdd(lows'[l].m_, RInt(1))
         /\ nodes'[x].d_ = lows'[l].d_
         /\ nodes'[x].n_ = lows'[l].n_
         /\ nodes'[x].lower_bound_ = NegResult(lows'[l].upper_bound_)
         /\ nodes'[x].upper_bound_ = NegResult(lows'[l].lower_bound_)]_vars

\* C14 (MakeNotTerminal is idempotent).  For every Node, terminal or not,
\* with or without a LowNode, the LowNode terminal or not, and either
\* also_low_node, a second Node::MakeNotTerminal leaves Node and LowNode as
\* the first did, and a call on a Node and LowNode that are both not
\* terminal changes nothing; the same for LowNode::MakeNotTerminal.
C14_MakeNotTerminalIdempotent ==
  /\ \A x \in LiveNodes, also_low_node \in BOOLEAN :
       \E once \in {NodeMakeNotTerminalHeap(nodes, lows, x, also_low_node)} :
         /\ NodeMakeNotTerminalHeap(once.n, once.l, x, also_low_node) = once
         /\ (/\ ~IsTerminal(nodes[x])
             /\ nodes[x].low_node_ # Null => ~IsTerminal(lows[nodes[x].low_node_]))
              => once = [n |-> nodes, l |-> lows]
  /\ \E once \in {[lows EXCEPT ![RevLow] =
                     LowMadeNotTerminal(nodes, lows, RevLow, RevRoot)]} :
       /\ LowMadeNotTerminal(nodes, once, RevLow, RevRoot) = once[RevLow]
       /\ ~IsTerminal(lows[RevLow]) => once = lows

\* A terminal Node with a terminal LowNode that has a visited child: the
\* first call reverts both.
C14_Witness ==
  /\ IsTerminal(nodes[RevRoot])
  /\ IsTerminal(lows[RevLow])
  /\ \E c \in LiveNodes : nodes[c].parent_ = RevLow /\ nodes[c].n_ > 0
  /\ NodeMakeNotTerminalHeap(nodes, lows, RevRoot, TRUE).n # nodes
  /\ NodeMakeNotTerminalHeap(nodes, lows, RevRoot, TRUE).l # lows

\* The children of LowNode l with n > 0, and the sum of n * field over a
\* set S of them, exactly.
VisitedChildren(l) ==
  {c \in LiveNodes : nodes[c].parent_ = l /\ nodes[c].n_ > 0}
RECURSIVE WeightedSum(_, _)
WeightedSum(S, field) ==
  IF S = {} THEN RInt(0)
  ELSE LET c == CHOOSE y \in S : TRUE
       IN RAdd(RMulInt(nodes[c][field], nodes[c].n_), WeightedSum(S \ {c}, field))
RECURSIVE VisitSum(_)
VisitSum(S) ==
  IF S = {} THEN 0
  ELSE LET c == CHOOSE y \in S : TRUE
       IN nodes[c].n_ + VisitSum(S \ {c})

\* A step that is the call LowNode::MakeNotTerminal on a terminal LowNode
\* with a visited child.
LowRevertStep ==
  /\ CallStep("LowNode::MakeNotTerminal")
  /\ IsTerminal(lows[RevLow])
  /\ VisitedChildren(RevLow) # {}

\* C15 (LowNode reverted from its children).  LowNode::MakeNotTerminal on
\* a terminal LowNode with a visited child makes it NonTerminal with the
\* bounds (BLACK_WON, WHITE_WON), n the sum of n over the children with
\* n > 0, and wl, d, m the n-weighted means of those children's wl, d, m.
C15_LowNodeIsMeanOfChildren ==
  [][LowRevertStep =>
       \E S \in {VisitedChildren(RevLow)} :
         /\ lows'[RevLow].terminal_type_ = "NonTerminal"
         /\ lows'[RevLow].lower_bound_ = "BLACK_WON"
         /\ lows'[RevLow].upper_bound_ = "WHITE_WON"
         /\ lows'[RevLow].n_ = VisitSum(S)
         /\ lows'[RevLow].wl_ = RDivInt(WeightedSum(S, "wl_"), VisitSum(S))
         /\ lows'[RevLow].d_ = RDivInt(WeightedSum(S, "d_"), VisitSum(S))
         /\ lows'[RevLow].m_ = RDivInt(WeightedSum(S, "m_"), VisitSum(S))]_vars


\* ------------------------------------------------------------------------
\* SpecCodec: one Edge; SetP stores the code of a prior, GetP reads the
\* prior back.  last holds the call: its argument (bit pattern or code) and
\* what it stored or returned.
\* ------------------------------------------------------------------------
\* Encode(1.0f), the largest code a prior in [0, 1] gets.
MaxCode == EncodeP(OneBits)
\* The codes are taken in windows of CodeStep.
CodeStep == 512
Window(c) == {d \in 0..MaxCode : d \div CodeStep = c \div CodeStep}

\* The priors SetP is given: 0.0f and its neighbours, the least pattern that
\* is not rounded up to the code 0 and its neighbours, and around the first
\* code of every window the pattern it decodes to, the rounding boundaries
\* below and above it and their neighbours; all in [0.0f, 1.0f].
CodecBits ==
  ({ZeroBits, 1, ExponentBits - RoundingBit - 1, ExponentBits - RoundingBit,
    ExponentBits - 1, OneBits - 1, OneBits}
   \cup {DecodeP(w * CodeStep) + o :
           w \in 0..(MaxCode \div CodeStep),
           o \in {-RoundingBit - 1, -RoundingBit, 0, RoundingBit - 1, RoundingBit}})
    \cap ZeroBits..OneBits

CodecEdge == lows[1].edges_[1]

InitCodec ==
  /\ InitCommon
  /\ nodes = [x \in NodeIds |-> FreeNode]
  /\ gamebegin_node_ = Null
  /\ current_head_ = Null
  /\ thr = <<>>
  /\ acct = NoAcct

CodecFrame == UNCHANGED <<nodes, treeVars, gcVars, rs, iters, thr, aborted, acct>>

\* The LowNode of a position with one legal move is made: its Edge has p_ = 0.
CodecMakeEdge ==
  /\ ~lows[1].live
  /\ lows' = [lows EXCEPT ![1] = NewLowNode(MoveList(1))]
  /\ last' = Last("FromMovelist", Null, 0, 0)
  /\ CodecFrame

\* edge.SetP(p) with p of bit pattern bits.
CodecSetP(bits) ==
  /\ lows[1].live
  /\ lows' = [lows EXCEPT ![1].edges_[1].p_ = EncodeP(bits)]
  /\ last' = Last("SetP", bits, 0, EncodeP(bits))
  /\ CodecFrame

\* edge.GetP()
CodecGetP ==
  /\ lows[1].live
  /\ last' = Last("GetP", CodecEdge.p_, 0, DecodeP(CodecEdge.p_))
  /\ UNCHANGED lows
  /\ CodecFrame

NextCodec ==
  \/ CodecMakeEdge
  \/ \E bits \in CodecBits : CodecSetP(bits)
  \/ CodecGetP

SpecCodec == InitCodec /\ [][NextCodec]_vars

\* C18 (codec monotonic).  Of two priors in [0, 1] the one with the
\* smaller bit pattern gets the smaller or equal code: what SetP stored
\* for a is at most what the next SetP stores for b when a <= b, and at
\* least that when a >= b.
C18_EncodeMonotonic ==
  [][last.op = "SetP" /\ last'.op = "SetP" =>
       /\ last.ret = CodecEdge.p_ /\ last'.ret = CodecEdge'.p_
       /\ last.x <= last'.x => CodecEdge.p_ <= CodecEdge'.p_
       /\ last.x >= last'.x => CodecEdge.p_ >= CodecEdge'.p_]_vars

\* SetP was given a prior whose code is neither the least nor the largest.
C18_Witness ==
  /\ last.op = "SetP"
  /\ last.ret = CodecEdge.p_
  /\ 0 < last.ret /\ last.ret < MaxCode
  /\ \E a \in CodecBits : a < last.x /\ 0 < EncodeP(a) /\ EncodeP(a) < last.ret

\* C19 (codec round trip).  Every code c whose prior is in [0, 1], that
\* is c <= Encode(1.0f), is the code of the prior it decodes to; so the
\* code SetP stored for a prior is the code of the prior GetP gives back.
\* The codes are checked window by window, the window of the stored code
\* in each state.
C19_RoundTrip ==
  lows[1].live =>
    /\ \A c \in Window(CodecEdge.p_) :
         DecodeP(c) \in ZeroBits..OneBits /\ EncodeP(DecodeP(c)) = c
    /\ last.op = "SetP" => EncodeP(DecodeP(EncodeP(last.x))) = EncodeP(last.x)
    /\ last.op = "GetP" => EncodeP(last.ret) = last.x

\* GetP has read back a prior that SetP had rounded: it differs from the
\* prior given, and is neither the least nor the largest.
C19_Witness ==
  /\ last.op = "GetP"
  /\ 0 < last.x /\ last.x < MaxCode
  /\ last.ret \notin CodecBits
  /\ \E bits \in CodecBits : EncodeP(bits) = last.x /\ bits > last.ret

\* C20 (what the code 0 decodes to).  GetP of an Edge whose code is 0
\* returns the bit pattern 0x30000000, the float 2^-31, which is the least
\* prior GetP returns; it is not the pattern of 0.0f, though SetP(0.0f)
\* stores the code 0.
C20_DecodeZeroIsLeastPrior ==
  /\ EncodeP(ZeroBits) = 0
  /\ last.op = "GetP" /\ last.x = 0 => last.ret = ExponentBits /\ last.ret # ZeroBits
  /\ last.op = "GetP" => last.ret >= ExponentBits

\* GetP called on an Edge whose code is 0, the code of 0.0f.
C20_Witness ==
  /\ last.op = "GetP"
  /\ last.x = 0
  /\ CodecEdge.p_ = EncodeP(ZeroBits)

\* C20 as stated: GetP of an Edge whose code is 0 returns the bit pattern
\* of 0.0f.
C20_AsStated ==
  last.op = "GetP" /\ last.x = 0 => last.ret = ZeroBits

\* A step that is the call Node::MakeTerminal(BLACK_WON, plies, type).
LossStep == CallStep("MakeTerminal") /\ last'.k[1] = "BLACK_WON"

\* What C16 says of the Node, of the other edges and of a Node without a
\* parent: wl = -1, d = 0, both bounds BLACK_WON unless the type is TwoFold;
\* no edge but the Node's own is changed, and none at all without a parent.
LossKeepsRest(x) ==
  /\ nodes'[x].wl_ = RInt(-1)
  /\ nodes'[x].d_ = RInt(0)
  /\ last'.k[2] # "TwoFold" =>
       nodes'[x].lower_bound_ = "BLACK_WON" /\ nodes'[x].upper_bound_ = "BLACK_WON"
  /\ \A l \in LowIds : \A j \in DOMAIN lows[l].edges_ :
       (l # nodes[x].parent_ \/ j # nodes[x].index_ + 1)
         => lows'[l].edges_[j] = lows[l].edges_[j]
  /\ \A l \in LowIds : DOMAIN lows'[l].edges_ = DOMAIN lows[l].edges_

\* The code of the own edge of Node x after the step.
OwnCode(x) == lows'[nodes[x].parent_].edges_[nodes[x].index_ + 1].p_

\* C16 as stated: on a Node with a parent the call sets the code of the
\* Node's own edge to the code whose decoded prior is 0.
C16_AsStated ==
  [][LossStep =>
       \E x \in {last'.x} :
         /\ LossKeepsRest(x)
         /\ nodes[x].parent_ # Null => DecodeP(OwnCode(x)) = ZeroBits]_vars

\* C16 (a loss clears the prior of the own edge).  Node::MakeTerminal(
\* BLACK_WON, plies, type) on a Node with a parent sets the code of the
\* Node's own edge to 0, the code of 0.0f, which decodes to the least
\* prior 2^-31; it sets wl = -1, d = 0 and, unless the type is TwoFold,
\* both bounds to BLACK_WON; it changes no other edge, and no edge at all
\* on a Node without a parent.
C16_LossClearsOwnPrior ==
  [][LossStep =>
       \E x \in {last'.x} :
         /\ LossKeepsRest(x)
         /\ nodes[x].parent_ # Null =>
              /\ OwnCode(x) = EncodeP(ZeroBits)
              /\ OwnCode(x) = 0
              /\ DecodeP(OwnCode(x)) = ExponentBits]_vars

\* A child whose edge had a prior was made a loss, its sibling edge keeps
\* its prior; the type was TwoFold and the bounds are not both BLACK_WON.
C16_Witness ==
  /\ last.op = "MakeTerminal"
  /\ last.k = <<"BLACK_WON", "TwoFold">>
  /\ last.x # RevRoot
  /\ nodes[last.x].parent_ = RevLow
  /\ nodes[last.x].upper_bound_ = "WHITE_WON"
  /\ lows[RevLow].edges_[nodes[last.x].index_ + 1].p_ = 0
  /\ \E j \in DOMAIN lows[RevLow].edges_ : lows[RevLow].edges_[j].p_ > 0


\* ------------------------------------------------------------------------
\* SpecRevert32: Node::RevertTerminalVisits on a terminal Node whose n_ is
\* kept with its 32 bits, as the halves <<high, low>>; the Node is Node 1
\* and gets the terminal's own value back.
\* ------------------------------------------------------------------------
\* Visit counts of the Node: 0 .. 2^32 - 1 around 0, 2^16, 2^31 and 2^32.
WideCounts == {<<h, l>> : h \in {0, 1, Half \div 2 - 1, Half \div 2, Half - 1},
                          l \in {0, 1, 2, Half - 1}}
\* The multivisit of a call.
WideVisits == {1, 2, 3, Half}
MaxWideCalls == 2

InitRevert32 ==
  /\ InitCommon
  /\ \E n \in WideCounts :
       nodes = [x \in NodeIds |->
                  IF x = 1
                    THEN [NodeMakeTerminalHeap(
                            [y \in NodeIds |-> NewNode(Null, 0)], lows, 1,
                            "DRAW", 1, "TwoFold").n[1] EXCEPT !.n_ = n]
                    ELSE FreeNode]
  /\ gamebegin_node_ = 1
  /\ current_head_ = 1
  /\ thr = <<>>
  /\ acct = NoAcct

\* nodes[1].RevertTerminalVisits(wl, d, m, k)
WideRevert(k) ==
  /\ acct.calls < MaxWideCalls
  /\ acct' = [acct EXCEPT !.calls = @ + 1]
  /\ \E r \in {RevertedWide(nodes[1], nodes[1].n_, ToFloat(nodes[1].wl_),
                            nodes[1].d_, nodes[1].m_, k)} :
       nodes' = [nodes EXCEPT ![1] = [r.nd EXCEPT !.n_ = r.n]]
  /\ last' = Last("RevertTerminalVisits", 1, k, Null)
  /\ UNCHANGED <<lows, treeVars, gcVars, rs, iters, thr, aborted>>

NextRevert32 == \E k \in WideVisits : WideRevert(k)

SpecRevert32 == InitRevert32 /\ [][NextRevert32]_vars

\* a >= b on uint32_t.
Geq32(a, b) == a[1] > b[1] \/ (a[1] = b[1] /\ a[2] >= b[2])

\* C17 (reverting terminal visits).  Node::RevertTerminalVisits(v, d, m, k)
\* with k >= n resets the Node to n = 0, wl = 0, d = 1, m = 0; with k < n
\* it decreases n by exactly k; n_in_flight is unchanged.
C17_RevertKeepsCount ==
  [][CallStep("RevertTerminalVisits") =>
       /\ Geq32(U32(last'.k), nodes[1].n_) =>
            /\ nodes'[1].n_ = <<0, 0>>
            /\ nodes'[1].wl_ = RInt(0)
            /\ nodes'[1].d_ = RInt(1)
            /\ nodes'[1].m_ = RInt(0)
       /\ ~Geq32(U32(last'.k), nodes[1].n_) =>
            nodes'[1].n_ = Sub32(nodes[1].n_, U32(last'.k))
       /\ nodes'[1].n_in_flight_ = nodes[1].n_in_flight_]_vars


\* ------------------------------------------------------------------------
\* The codes of 0.0f and 1.0f (SpecCodec).
\* ------------------------------------------------------------------------
\* Bits 12..27 of a non-negative 32-bit tmp.
Bits12To27(tmp) == (tmp \div 4096) % 65536

\* C21 (codes of the end points).  SetP stores, for every prior, bits
\* 12..27 of its bit pattern plus (1 << 11) - (3 << 28), or 0 when that sum
\* is negative; so SetP(0.0f) stores the code 0 and SetP(1.0f) stores the
\* code 0xF800 = 63488, which is 2048 above 0xF000.
C21_EndPointCodes ==
  last.op = "SetP" =>
    /\ CodecEdge.p_ = last.ret
    /\ last.x + 2048 - 805306368 < 0 => last.ret = 0
    /\ last.x + 2048 - 805306368 >= 0 =>
         last.ret = Bits12To27(last.x + 2048 - 805306368)
    /\ last.x = 0 => last.ret = 0
    /\ last.x = 1065353216 => last.ret = 63488

\* SetP(1.0f) has stored its code.
C21_Witness ==
  /\ last.op = "SetP"
  /\ last.x = OneBits
  /\ CodecEdge.p_ = last.ret
  /\ CodecEdge.p_ > 61441

\* C21 as stated: SetP(0.0f) stores 0 and SetP(1.0f) stores a code within
\* 1 of 0xF000 = 61440.
C21_AsStated ==
  last.op = "SetP" =>
    /\ last.x = 0 => CodecEdge.p_ = 0
    /\ last.x = 1065353216 => CodecEdge.p_ \in 61439..61441


\* ------------------------------------------------------------------------
\* SpecSort: the edge array of one LowNode without children; SetP gives the
\* edges their priors and LowNode::SortEdges sorts the array.  last holds
\* the call; for SortEdges, the array before (x) and after (ret), and
\* whether the call follows another SortEdges directly (k = 2) or not
\* (k = 1).
\* ------------------------------------------------------------------------
MaxSortEdges == 3
\* The bit patterns of the priors 0.0f, 0.25f, 0.5f and 1.0f.
SortBits == {ZeroBits, 1048576000, 1056964608, OneBits}

\* The ways of rearranging n elements.
Perms(n) == {f \in [1..n -> 1..n] : \A i, j \in 1..n : f[i] = f[j] => i = j}
Rearranged(edges, f) == [i \in 1..Len(edges) |-> edges[f[i]]]

\* The comparator of Edge::SortEdges: a.p_ > b.p_.
SortsBefore(a, b) == a.p_ > b.p_
\* No element sorts before the one in front of it.
IsSorted(edges) ==
  \A i \in 1..(Len(edges) - 1) : ~SortsBefore(edges[i + 1], edges[i])

\* Edge::SortEdges comparing with a.p_ < b.p_.
SortAscending_Mut(edges) ==
  {r \in {Rearranged(edges, f) : f \in Perms(Len(edges))} :
     \A i \in 1..(Len(r) - 1) : ~(r[i + 1].p_ < r[i].p_)}
\* Edge::SortEdges making one pass of exchanges of neighbours.
RECURSIVE OnePass(_, _)
OnePass(edges, i) ==
  IF i >= Len(edges) THEN edges
  ELSE IF SortsBefore(edges[i + 1], edges[i])
    THEN OnePass([edges EXCEPT ![i] = edges[i + 1], ![i + 1] = edges[i]], i + 1)
    ELSE OnePass(edges, i + 1)
SortOnePass_Mut(edges) == {OnePass(edges, 1)}
\* void Edge::SortEdges(Edge* edges, int num_edges): std::sort with the
\* comparator a.p_ > b.p_.  std::sort leaves the elements in an order in
\* which none sorts before its predecessor and does not say in which order
\* it leaves elements neither of which sorts before the other: every such
\* order is an outcome.
SortEdges(edges) ==
  {r \in {Rearranged(edges, f) : f \in Perms(Len(edges))} : IsSorted(r)}

InitSort == InitCodec

\* The LowNode of a position with e legal moves is made.
SortMakeEdges(e) ==
  /\ ~lows[1].live
  /\ lows' = [lows EXCEPT ![1] = NewLowNode(MoveList(e))]
  /\ last' = Last("FromMovelist", Null, e, 0)
  /\ CodecFrame

\* edges_[i].SetP(p) with p of bit pattern bits.
SortSetP(i, bits) ==
  /\ lows[1].live
  /\ i \in 1..Len(lows[1].edges_)
  /\ lows' = [lows EXCEPT ![1].edges_[i].p_ = EncodeP(bits)]
  /\ last' = Last("SetP", bits, i, EncodeP(bits))
  /\ CodecFrame

\* low_node->SortEdges(): asserts edges_ and !child_.
LowSortEdges ==
  /\ lows[1].live
  /\ Len(lows[1].edges_) > 0
  /\ lows[1].child_ = Null
  /\ \E r \in SortEdges(lows[1].edges_) :
       /\ lows' = [lows EXCEPT ![1].edges_ = r]
       /\ last' = Last("SortEdges", lows[1].edges_,
                       IF last.op = "SortEdges" THEN 2 ELSE 1, r)
  /\ CodecFrame

NextSort ==
  \/ \E e \in 1..MaxSortEdges : SortMakeEdges(e)
  \/ \E i \in 1..MaxSortEdges, bits \in SortBits : SortSetP(i, bits)
  \/ LowSortEdges

SpecSort == InitSort /\ [][NextSort]_vars

\* The position of the edge with move m in an edge array.
PositionOf(edges, m) == CHOOSE k \in 1..Len(edges) : edges[k].move_ = m
\* A step that is a call of SortEdges.
SortStep == last'.op = "SortEdges" /\ last'.x = lows[1].edges_

SecondSortStep == SortStep /\ last'.k = 2 /\ last.ret = lows[1].edges_

MaxBackupVisits == 2

\* The first visit has evaluated the LowNode and has been backed up on it
\* and on the root Node.
InitBackup ==
  /\ moves_ = <<>>
  /\ subtrees_to_gc_ = <<>>
  /\ stop_ = FALSE
  /\ gc = IdleGc
  /\ rs = IdleRs
  /\ iters = <<>>
  /\ aborted = "none"
  /\ last = Last("Init", Null, 0, Null)
  /\ nodes = [x \in NodeIds |->
                IF x = RevRoot
                  THEN [FinalizedNode(StartedNode(NewNode(Null, 0)),
                                      <<1, 2>>, <<1, 8>>, <<21, 1>>, 1)
                          EXCEPT !.low_node_ = RevLow]
                  ELSE FreeNode]
  /\ lows = [l \in LowIds |->
               IF l = RevLow
                 THEN LowFinalized(AddedParent(NewLowNode(RevEdges), 0),
                                   <<1, 2>>, <<1, 8>>, <<20, 1>>, 1)
                 ELSE FreeLowNode]
  /\ gamebegin_node_ = RevRoot
  /\ current_head_ = RevRoot
  /\ thr = <<>>
  /\ acct = NoAcct

\* GetOrSpawnNode for edge i of the root.
BackupSpawn(i) ==
  /\ SearchSpawn(RevRoot, i)

\* A visit through the child x of the LowNode, backed up on x, on the
\* LowNode and on the root: TryStartScoreUpdate and FinalizeScoreUpdate on
\* the Nodes, LowNode::FinalizeScoreUpdate on the LowNode.
BackupVisit(x, e) ==
  /\ x \in LiveNodes \ {RevRoot}
  /\ acct.started < MaxBackupVisits
  /\ ~GateClosed(nodes[x])
  /\ ~IsTerminal(nodes[RevRoot]) /\ ~IsTerminal(lows[RevLow])
  /\ \E b \in {RevValue(nodes[x], e)} :
       /\ nodes' = [nodes EXCEPT
                      ![x] = FinalizedNode(StartedNode(@), b[1], b[2], b[3], 1),
                      ![RevRoot] = FinalizedNode(StartedNode(@), b[1], b[2], b[3], 1)]
       /\ lows' = [lows EXCEPT ![RevLow] = LowFinalized(@, b[1], b[2], b[3], 1)]
  /\ acct' = [acct EXCEPT !.started = @ + 1, !.finalized = @ + 1]
  /\ last' = Last("FinalizeScoreUpdate", x, 1, Null)
  /\ RevFrame

\* A visit that ends at the LowNode (a terminal, or a transposition reached
\* again), backed up on the LowNode and on the root.
BackupLowVisit(e) ==
  /\ acct.started < MaxBackupVisits
  /\ \E b \in {RevValue(lows[RevLow], e)} :
       /\ lows' = [lows EXCEPT ![RevLow] = LowFinalized(@, b[1], b[2], b[3], 1)]
       /\ nodes' = [nodes EXCEPT
                      ![RevRoot] = FinalizedNode(StartedNode(@), b[1], b[2], b[3], 1)]
  /\ acct' = [acct EXCEPT !.started = @ + 1, !.finalized = @ + 1]
  /\ last' = Last("LowNode::FinalizeScoreUpdate", RevLow, 1, Null)
  /\ RevFrame

NextBackup ==
  \/ \E i \in 0..(MaxEdges - 1) : BackupSpawn(i)
  \/ \E x \in NodeIds, e \in RevEvals : BackupVisit(x, e)
  \/ \E e \in RevEvals : BackupLowVisit(e)
  \/ \E x \in NodeIds, kind \in TerminalArgs : RevMakeTerminal(x, kind)
  \/ \E kind \in TerminalArgs : RevLowMakeTerminal(kind)
  \/ \E x \in NodeIds, also_low_node \in BOOLEAN : RevMakeNotTerminal(x, also_low_node)
  \/ RevLowMakeNotTerminal

SpecBackup == InitBackup /\ [][NextBackup]_vars

\* The Nodes of the child list of LowNode l.
ChildrenOf(l) == {c \in LiveNodes : nodes[c].parent_ = l}

\* C24 (I3).  The n of every LowNode is at least the sum of the n of its
\* children, plus 1 if the LowNode has edges.
C24_LowNodeCountsOwnVisit ==
  \A l \in LiveLows :
    lows[l].n_ >= VisitSum(ChildrenOf(l))
                    + (IF Len(lows[l].edges_) > 0 THEN 1 ELSE 0)


\* ------------------------------------------------------------------------
\* SpecFlight: virtual loss on a Node and its LowNode.  The root Node holds
\* an evaluated LowNode; its child Node has no LowNode until the visit that
\* extends it attaches one.  One visit at a time: the descent raises
\* n_in_flight, the backup finalizes on the Node and on its LowNode.  thr
\* holds the visit in progress: its Node, its multivisit and the
\* n_in_flight of the Node (n) and of its LowNode (l) before the descent.
\* ------------------------------------------------------------------------
MaxFlightVisits == 3
FlightChild == 2

InitFlight ==
  /\ moves_ = <<>>
  /\ subtrees_to_gc_ = <<>>
  /\ stop_ = FALSE
  /\ gc = IdleGc
  /\ rs = IdleRs
  /\ iters = <<>>
  /\ aborted = "none"
  /\ last = Last("Init", Null, 0, Null)
  /\ nodes = [x \in NodeIds |->
                IF x = RevRoot
                  THEN [FinalizedNode(StartedNode(NewNode(Null, 0)),
                                      <<1, 2>>, <<1, 8>>, <<21, 1>>, 1)
                          EXCEPT !.low_node_ = RevLow]
                  ELSE IF x = FlightChild THEN NewNode(RevLow, 0)
                  ELSE FreeNode]
  /\ lows = [l \in LowIds |->
               IF l = RevLow
                 THEN [LowFinalized(AddedParent(NewLowNode(RevEdges), 0),
                                    <<1, 2>>, <<1, 8>>, <<20, 1>>, 1)
                         EXCEPT !.child_ = FlightChild]
                 ELSE FreeLowNode]
  /\ gamebegin_node_ = RevRoot
  /\ current_head_ = RevRoot
  /\ thr = <<>>
  /\ acct = NoAcct

FlightFrame == UNCHANGED <<treeVars, gcVars, rs, iters>>

\* The n_in_flight of the LowNode of x, 0 while x has none.
LowInFlight(x) ==
  IF nodes[x].low_node_ = Null THEN 0 ELSE lows[nodes[x].low_node_].n_in_flight_
\* The visit that starts on x with multivisit k.
Visit(x, k) ==
  [node |-> x, multivisit |-> k, n |-> nodes[x].n_in_flight_, l |-> LowInFlight(x)]

\* The descent reaches x: x.TryStartScoreUpdate().
FlightTryStart(x) ==
  /\ thr = <<>>
  /\ acct.started < MaxFlightVisits
  /\ TryStartScoreUpdate(x)
  /\ thr' = IF GateClosed(nodes[x]) THEN <<>> ELSE <<Visit(x, 1)>>
  /\ acct' = [acct EXCEPT !.started = @ + 1]
  /\ FlightFrame

\* The descent reaches x with a visit taken as k: x.IncrementNInFlight(k).
FlightIncrement(x, k) ==
  /\ thr = <<>>
  /\ acct.started + k <= MaxFlightVisits
  /\ IncrementNInFlight(x, k)
  /\ thr' = <<Visit(x, k)>>
  /\ acct' = [acct EXCEPT !.started = @ + k]
  /\ FlightFrame

\* The visit extends its Node: a LowNode is made for the position and
\* node->SetLowNode(low_node) attaches it.
FlightSetLowNode ==
  /\ thr # <<>>
  /\ nodes[thr[1].node].low_node_ = Null
  /\ FreeLowIds(lows) # {}
  /\ \E l \in {Lowest(FreeLowIds(lows))} :
       /\ \E h \in {SetLowNodeHeap(nodes,
                                   [lows EXCEPT ![l] = NewLowNode(MoveList(1))],
                                   thr[1].node, l)} :
            nodes' = h.n /\ lows' = h.l
       /\ last' = Last("SetLowNode", thr[1].node, l, TRUE)
  /\ UNCHANGED <<thr, acct, aborted>>
  /\ FlightFrame

\* The backup of the visit: FinalizeScoreUpdate(v, d, m, multivisit) on the
\* LowNode of the Node, if it has one, and on the Node.
FlightFinalize(e) ==
  /\ thr # <<>>
  /\ aborted = "none"
  /\ nodes[thr[1].node].n_in_flight_ >= thr[1].multivisit
  /\ nodes' = [nodes EXCEPT ![thr[1].node] =
                 FinalizedNode(@, e[1], e[2], e[3], thr[1].multivisit)]
  /\ lows' = IF nodes[thr[1].node].low_node_ = Null THEN lows
             ELSE [lows EXCEPT ![nodes[thr[1].node].low_node_] =
                     LowFinalized(@, e[1], e[2], e[3], thr[1].multivisit)]
  /\ last' = Last("FinalizeScoreUpdate", thr[1].node, thr[1].multivisit, thr[1])
  /\ thr' = <<>>
  /\ acct' = [acct EXCEPT !.finalized = @ + thr[1].multivisit]
  /\ UNCHANGED aborted
  /\ FlightFrame

NextFlight ==
  \/ \E x \in {RevRoot, FlightChild} : FlightTryStart(x)
  \/ \E x \in {RevRoot, FlightChild}, k \in 1..MaxFlightVisits : FlightIncrement(x, k)
  \/ FlightSetLowNode
  \/ \E e \in RevEvals : FlightFinalize(e)

SpecFlight == InitFlight /\ [][NextFlight]_vars

\* C25 (virtual loss balanced).  When a visit has been finalized on its
\* Node and on the Node's LowNode, the n_in_flight of the Node and of the
\* LowNode are what they were before the descent; and while no visit is in
\* progress every Node and every LowNode has n_in_flight = 0.
C25_VirtualLossBalanced ==
  thr = <<>> =>
    /\ last.op = "FinalizeScoreUpdate" =>
         /\ nodes[last.x].n_in_flight_ = last.ret.n
         /\ LowInFlight(last.x) = last.ret.l
    /\ \A x \in LiveNodes : nodes[x].n_in_flight_ = 0
    /\ \A l \in LiveLows : lows[l].n_in_flight_ = 0


\* ------------------------------------------------------------------------
\* SpecParents: two threads attach and detach two different Nodes to and
\* from the same LowNode without a common lock (the collector detaches the
\* Node it popped, node.cc:86, while a search worker attaches a Node of the
\* tree).  num_parents_ is a plain uint8_t (node.h:335): ++num_parents_ and
\* --num_parents_ are a read and a write.  thr[t] holds the call of thread
\* t: where it is (pc), the value it read (tmp), and the attaches and
\* detaches it has completed.
\* ------------------------------------------------------------------------
MaxParentCalls == 3
\* The Node of each thread; Node 1 holds the LowNode throughout.
ParentsNode(t) == t + 1
ParentsLow == 1

InitParents ==
  /\ moves_ = <<>>
  /\ subtrees_to_gc_ = <<>>
  /\ stop_ = FALSE
  /\ gc = IdleGc
  /\ rs = IdleRs
  /\ iters = <<>>
  /\ aborted = "none"
  /\ last = Last("Init", Null, 0, Null)
  /\ nodes = [x \in NodeIds |->
                IF x \in {1, ParentsNode(1)}
                  THEN [NewNode(Null, 0) EXCEPT !.low_node_ = ParentsLow]
                  ELSE IF x = ParentsNode(2) THEN NewNode(Null, 0) ELSE FreeNode]
  /\ lows = [l \in LowIds |->
               IF l = ParentsLow
                 THEN AddedParent(AddedParent(NewLowNode(MoveList(1)), 0), 0)
                 ELSE FreeLowNode]
  /\ gamebegin_node_ = 1
  /\ current_head_ = 1
  /\ thr = [t \in Workers |-> [pc |-> "idle", tmp |-> 0, attaches |-> 0, detaches |-> 0]]
  /\ acct = NoAcct

ParentsFrame == UNCHANGED <<treeVars, gcVars, rs, iters, aborted, acct>>

\* ++num_parents_ (SetLowNode, AddParent) or --num_parents_ (UnsetLowNode,
\* RemoveParent): the read.
ParentsRead(t) ==
  /\ thr[t].pc = "idle"
  /\ thr[t].attaches + thr[t].detaches < MaxParentCalls
  /\ thr' = [thr EXCEPT ![t].pc = IF nodes[ParentsNode(t)].low_node_ = Null
                                    THEN "AddParent" ELSE "RemoveParent",
                        ![t].tmp = lows[ParentsLow].num_parents_]
  /\ last' = Last("num_parents_:read", ParentsNode(t), t, lows[ParentsLow].num_parents_)
  /\ UNCHANGED <<nodes, lows>>
  /\ ParentsFrame

\* AddParent from the write of ++num_parents_ on, and low_node_ = low_node.
ParentsAttach(t) ==
  /\ thr[t].pc = "AddParent"
  /\ lows' = [lows EXCEPT ![ParentsLow] =
                AddedParent([@ EXCEPT !.num_parents_ = thr[t].tmp],
                            nodes[ParentsNode(t)].n_in_flight_)]
  /\ nodes' = [nodes EXCEPT ![ParentsNode(t)].low_node_ = ParentsLow]
  /\ thr' = [thr EXCEPT ![t].pc = "idle", ![t].attaches = @ + 1]
  /\ last' = Last("SetLowNode", ParentsNode(t), t, TRUE)
  /\ ParentsFrame

\* RemoveParent from the write of --num_parents_ on, and low_node_.reset().
ParentsDetach(t) ==
  /\ thr[t].pc = "RemoveParent"
  /\ lows' = [lows EXCEPT ![ParentsLow] =
                RemovedParent([@ EXCEPT !.num_parents_ = thr[t].tmp])]
  /\ nodes' = [nodes EXCEPT ![ParentsNode(t)].low_node_ = Null]
  /\ thr' = [thr EXCEPT ![t].pc = "idle", ![t].detaches = @ + 1]
  /\ last' = Last("UnsetLowNode", ParentsNode(t), t, TRUE)
  /\ ParentsFrame

NextParents ==
  \E t \in Workers :
    \/ ParentsRead(t)
    \/ ParentsAttach(t)
    \/ ParentsDetach(t)

SpecParents == InitParents /\ [][NextParents]_vars

\* C26 (num_parents adjusted atomically).  Whenever neither thread is
\* inside SetLowNode or UnsetLowNode, num_parents of the LowNode is the 2
\* it started with plus the attaches and minus the detaches completed, which
\* is the number of Nodes that hold the LowNode.
C26_NoParentUpdateLost ==
  (\A t \in Workers : thr[t].pc = "idle") =>
    /\ lows[ParentsLow].num_parents_ =
         2 + thr[1].attaches + thr[2].attaches - thr[1].detaches - thr[2].detaches
    /\ lows[ParentsLow].num_parents_ = Cardinality(Holders(nodes, ParentsLow))



\* ------------------------------------------------------------------------
\* SpecStop: as SpecGc, and the collector may also be shut down while the
\* engine thread is inside ResetToPosition, which goes on handing subtrees
\* to the queue.  last holds the length of the queue when stop_ was set.
\* ------------------------------------------------------------------------

\* ~NodeGarbageCollector(): stop_.store(true), while ResetToPosition runs.
ShutdownDuringReset ==
  /\ aborted = "none"
  /\ ~stop_
  /\ rs.pc = "replay"
  /\ stop_' = TRUE
  /\ last' = Last("~NodeGarbageCollector", Null, Len(subtrees_to_gc_), TRUE)
  /\ UNCHANGED <<nodes, lows, treeVars, subtrees_to_gc_, gc, rs, aborted>>
  /\ TreeFrame

NextStop ==
  \/ GcResetBegin
  \/ \E move \in Moves : ResetStep(move)
  \/ ResetEnd
  \/ Shutdown
  \/ ShutdownDuringReset
  \/ WorkerWake
  \/ GcStop
  \/ GcPopEmpty
  \/ GcPop
  \/ GcRelease

SpecStop == InitTree /\ [][NextStop]_vars /\ WF_vars(GcWorker)

\* C27 (shutdown terminates).  Once stop_ is set the worker thread ends,
\* whatever the queue holds and whatever is added to it meanwhile, under
\* fair scheduling of the worker; the join of the destructor waits for
\* exactly that.
C27_ShutdownTerminates == stop_ ~> (gc.pc = "exited")

\* The worker has ended after the stop flag was set, leaving in the queue
\* entries that were added after the flag was set.
C27_Witness ==
  /\ stop_
  /\ gc.pc = "exited"
  /\ last.op = "~NodeGarbageCollector"
  /\ Len(subtrees_to_gc_) > last.k
  /\ last.k >= 1


\* ------------------------------------------------------------------------
\* SpecHead: as SpecStats, with Nodes and positions found terminal in each
\* of the three ways; last holds the last move made and the terminal type
\* the Node of that move had before MakeMove ("NoNode" if the move had no
\* Node yet).
\* ------------------------------------------------------------------------
HeadKinds ==
  {<<"DRAW", "TwoFold">>, <<"BLACK_WON", "EndOfGame">>, <<"WHITE_WON", "Tablebase">>}

\* The terminal type of the Node MakeMove(move) finds for the move.
TypeOfMove(move) ==
  IF FindEdge(nodes, lows, Edges(nodes, lows, current_head_), move).node_ = Null
    THEN "NoNode"
    ELSE nodes[FindEdge(nodes, lows, Edges(nodes, lows, current_head_), move).node_]
           .terminal_type_

\* void NodeTree::MakeMove(Move move), called by the engine.
HeadMakeMove(move) ==
  /\ MainIdle
  /\ current_head_ # Null
  /\ gc.gc_mutex_ = "free"
  /\ Len(moves_) < MaxMoves
  /\ LegalMove(nodes, lows, current_head_, move)
  /\ CanAllocate(nodes, lows, MakeMoveNeeds(nodes, lows, current_head_, move))
  /\ \E w \in {MakeMoveW(nodes, lows, subtrees_to_gc_, current_head_, move)} :
        /\ nodes' = w.n /\ lows' = w.l /\ subtrees_to_gc_' = w.q
        /\ current_head_' = w.head
        /\ aborted' = w.ab
  /\ moves_' = Append(moves_, move)
  /\ last' = Last("MakeMove", move, TypeOfMove(move), TRUE)
  /\ UNCHANGED <<gamebegin_node_, stop_, gc, rs>>
  /\ TreeFrame

NextHead ==
  \/ \E x \in NodeIds, e \in 0..MaxEdges : SearchSetLowNode(x, e)
  \/ \E x \in NodeIds, i \in 0..(MaxEdges - 1) : SearchSpawn(x, i)
  \/ StatsTryStart
  \/ StatsFinalize
  \/ \E x \in NodeIds, kind \in HeadKinds : SearchMakeTerminal(x, kind)
  \/ \E x \in NodeIds, kind \in HeadKinds : SearchLowMakeTerminal(x, kind)
  \/ \E move \in Moves : HeadMakeMove(move)

SpecHead == InitStats /\ [][NextHead]_vars

\* C28 (the head is not terminal).  After every MakeMove that returns, the
\* Node current_head_ designates has terminal type NonTerminal, whether the
\* Node of the move was terminal (EndOfGame, Tablebase, TwoFold), was not
\* terminal, or did not exist before the call.
C28_HeadNotTerminal ==
  [][MakeMoveStep /\ aborted' = "none" =>
       /\ current_head_' # Null
       /\ nodes'[current_head_'].live
       /\ nodes'[current_head_'].terminal_type_ = "NonTerminal"]_vars

\* A second move has been made, to a Node that was a Tablebase
\* terminal.
C28_Witness ==
  /\ aborted = "none"
  /\ last.op = "MakeMove"
  /\ last.k = "Tablebase"
  /\ Len(moves_) = 2
  /\ nodes[current_head_].terminal_type_ = "NonTerminal"


\* ------------------------------------------------------------------------
\* ResetToPosition on another starting position (SpecTree)
\* ------------------------------------------------------------------------
\* A step that begins a ResetToPosition which deallocates the tree: the
\* game begin is replaced.
DeallocStep ==
  /\ rs.pc = "idle" /\ rs'.pc = "replay"
  /\ gamebegin_node_ # Null
  /\ gamebegin_node_' # gamebegin_node_
\* A step that ends a ResetToPosition which began without a head: the first
\* one, or one that deallocated the tree.
FreshResetEnd == rs.pc = "replay" /\ rs'.pc = "idle" /\ rs.old_head = Null
\* The Nodes the collector owns: those of the queue and of the entry the
\* worker has popped.
CollectorOwned(ns, ls, q, g) == QueueOwned(ns, ls, q) \cup Owned(ns, ls, {g.node_to_gc} \ {Null})

\* C29 (reset to another starting position).  When ResetToPosition finds a
\* game begin and another starting position, the old game begin is added
\* to the queue as one entry, which owns every Node of the old tree; the
\* new game begin is a new Node with n = 0, no LowNode and no parent, and
\* no Node of the old tree is in the new tree; when the call returns, it
\* returns false and no Node the collector owns is in the tree.
C29_OtherStartDeallocates ==
  [][/\ DeallocStep =>
          /\ subtrees_to_gc_' = Append(subtrees_to_gc_, gamebegin_node_)
          /\ LiveTree(nodes, lows, gamebegin_node_)
               \subseteq QueueOwned(nodes', lows', subtrees_to_gc_')
          /\ ~nodes[gamebegin_node_'].live
          /\ nodes'[gamebegin_node_'] = NewNode(Null, 0)
          /\ current_head_' = gamebegin_node_'
          /\ LiveTree(nodes', lows', gamebegin_node_')
               \cap LiveTree(nodes, lows, gamebegin_node_) = {}
     /\ FreshResetEnd =>
          /\ ~rs.seen_old_head
          /\ LiveTree(nodes', lows', gamebegin_node_')
               \cap CollectorOwned(nodes', lows', subtrees_to_gc_', gc') = {}]_vars

\* A ResetToPosition on another starting position has returned: the old
\* game begin, with a LowNode and a child, is in the queue, and the new
\* tree has a move made.
C29_Witness ==
  /\ rs.pc = "idle"
  /\ moves_ # <<>>
  /\ \E x \in Range(subtrees_to_gc_) :
       /\ nodes[x].parent_ = Null
       /\ nodes[x].low_node_ # Null
       /\ lows[nodes[x].low_node_].child_ # Null
  /\ gamebegin_node_ \notin Range(subtrees_to_gc_)


\* ------------------------------------------------------------------------
\* SpecTrim: the search extends the tree and backs visits up, the engine
\* makes moves and trims the tree at the head, at most MaxTrims times.  last
\* holds the call of TrimTreeAtHead: the head (x), its child list (k) and
\* the Node it was (ret) before the call.
\* ------------------------------------------------------------------------
MaxTrims == 1

\* void NodeTree::TrimTreeAtHead(), called by the engine.
TreeTrimAtHead ==
  /\ MainIdle
  /\ current_head_ # Null
  /\ gc.gc_mutex_ = "free"
  /\ acct.calls < MaxTrims
  /\ \E w \in {TrimTreeAtHeadW(nodes, lows, subtrees_to_gc_, current_head_)} :
       nodes' = w.n /\ lows' = w.l /\ subtrees_to_gc_' = w.q
  /\ acct' = [acct EXCEPT !.calls = @ + 1]
  /\ last' = Last("TrimTreeAtHead", current_head_,
                  ChildList(nodes, lows, nodes[current_head_].low_node_),
                  nodes[current_head_])
  /\ UNCHANGED <<treeVars, stop_, gc, rs, aborted, iters, thr>>

NextTrim ==
  \/ \E x \in NodeIds, e \in 0..MaxEdges : SearchSetLowNode(x, e)
  \/ \E x \in NodeIds, i \in 0..(MaxEdges - 1) : SearchSpawn(x, i)
  \/ StatsTryStart
  \/ StatsFinalize
  \/ \E move \in Moves : TreeMakeMove(move)
  \/ TreeTrimAtHead

SpecTrim == InitStats /\ [][NextTrim]_vars

\* A step that is a call of TrimTreeAtHead.
TrimStep == last'.op = "TrimTreeAtHead" /\ acct'.calls = acct.calls + 1

\* C30 (TrimTreeAtHead).  The call leaves current_head_ designating the
\* same Node, with the parent, the index and the sibling it had; the first
\* child of the head, which owns the whole child list, is added to the
\* queue, so every former child is owned by the queue; the head is left
\* with n = 0, n_in_flight = 0, wl = d = m = 0, not terminal, with the
\* bounds (BLACK_WON, WHITE_WON) and without LowNode.
C30_TrimKeepsLinkage ==
  [][TrimStep =>
       /\ current_head_' = current_head_
       /\ nodes'[current_head_].live
       /\ nodes'[current_head_].parent_ = nodes[current_head_].parent_
       /\ nodes'[current_head_].index_ = nodes[current_head_].index_
       /\ nodes'[current_head_].sibling_ = nodes[current_head_].sibling_
       /\ Chain(nodes', current_head_) = Chain(nodes, current_head_)
       /\ subtrees_to_gc_' =
            (IF last'.k = <<>> THEN subtrees_to_gc_
             ELSE Append(subtrees_to_gc_, last'.k[1]))
       /\ Range(last'.k) \subseteq QueueOwned(nodes', lows', subtrees_to_gc_')
       /\ \A c \in Range(last'.k) : nodes'[c] = nodes[c]
       /\ nodes'[current_head_].n_ = 0
       /\ nodes'[current_head_].n_in_flight_ = 0
       /\ nodes'[current_head_].wl_ = RInt(0)
       /\ nodes'[current_head_].d_ = RInt(0)
       /\ nodes'[current_head_].m_ = RInt(0)
       /\ nodes'[current_head_].terminal_type_ = "NonTerminal"
       /\ nodes'[current_head_].lower_bound_ = "BLACK_WON"
       /\ nodes'[current_head_].upper_bound_ = "WHITE_WON"
       /\ nodes'[current_head_].low_node_ = Null]_vars

\* TrimTreeAtHead has been called on a head that was reached by a move,
\* had visits, one of them in flight, and two children.
C30_Witness ==
  /\ last.op = "TrimTreeAtHead"
  /\ last.x = current_head_
  /\ last.ret.parent_ # Null
  /\ last.ret.n_ > 0
  /\ last.ret.low_node_ # Null
  /\ Len(last.k) = 2
  /\ nodes[current_head_].n_ = 0
  /\ Len(subtrees_to_gc_) >= 1


\* ------------------------------------------------------------------------
\* The worker's pop (SpecTree)
\* ------------------------------------------------------------------------

\* A step in which the worker pops an entry, and the entry it pops.
PopStep == gc.pc = "collect" /\ gc'.pc = "popped"
Popped == subtrees_to_gc_[Len(subtrees_to_gc_)]

\* A step in which the worker destroys the Node it holds.
DestroyStep == gc.pc = "popped" /\ gc'.pc = "collect"

\* C31 (UnsetLowNode on the popped root).  The pop leaves the popped root
\* alive and without LowNode; the LowNode it held has one parent less, or
\* is destroyed when the root was its last holder; no other LowNode's
\* count changes, and none changes when the root had no LowNode.  The root
\* is destroyed by a later step, when it holds no LowNode.
C31_PopUnsetsLowNode ==
  [][/\ PopStep =>
          /\ gc'.node_to_gc = Popped
          /\ nodes'[Popped].live
          /\ nodes'[Popped].low_node_ = Null
          /\ \A l \in LowIds :
               /\ (l = nodes[Popped].low_node_ /\ lows'[l].live) =>
                    lows'[l].num_parents_ = lows[l].num_parents_ - 1
               /\ (l = nodes[Popped].low_node_ /\ ~lows'[l].live) =>
                    Holders(nodes, l) = {Popped}
               /\ (l # nodes[Popped].low_node_ /\ lows'[l].live) =>
                    lows'[l].num_parents_ = lows[l].num_parents_
     /\ DestroyStep =>
          /\ nodes[gc.node_to_gc].live
          /\ nodes[gc.node_to_gc].low_node_ = Null
          /\ ~nodes'[gc.node_to_gc].live]_vars

\* The worker holds a popped root without LowNode, and a LowNode that was
\* shared by several Nodes has one holder and one parent left.
C31_Witness ==
  /\ gc.pc = "popped"
  /\ nodes[gc.node_to_gc].live
  /\ nodes[gc.node_to_gc].low_node_ = Null
  /\ \E l \in LiveLows :
       /\ lows[l].is_transposition
       /\ lows[l].num_parents_ = 1
       /\ Cardinality(Holders(nodes, l)) = 1


\* ------------------------------------------------------------------------
\* VisitedNode_Iterator (node.h:776-817) and SpecVisited: one parent with
\* IterEdges edges; the search spawns children, starts, cancels and
\* finalizes visits of them, and iterates over VisitedNodes().  last holds
\* the iteration: the (n, n_in_flight) of the children in list order (x)
\* and the positions in the child list of the Nodes yielded (ret).
\* ------------------------------------------------------------------------
MaxVisitedStarts == 3

\* operator++ going the other way: a child with n = 0 and visits in flight
\* ends the iteration as well.
RECURSIVE VisitedIncrement_Mut(_, _)
VisitedIncrement_Mut(ns, p) ==
  LET q == ns[p].sibling_
  IN IF q = Null THEN Null
     ELSE IF ns[q].n_ = 0 THEN Null
     ELSE q

\* void VisitedNode_Iterator::operator++(): the value of node_ptr_ after
\* the call, node_ptr_ being p before.
RECURSIVE VisitedIncrement(_, _)
VisitedIncrement(ns, p) ==
  LET q == ns[p].sibling_
  IN IF q = Null THEN Null
     ELSE IF ns[q].n_ = 0 /\ ns[q].n_in_flight_ = 0 THEN Null
     ELSE IF ns[q].n_ = 0 THEN VisitedIncrement(ns, q)
     ELSE q

\* VisitedNode_Iterator(parent_node, child_ptr): node_ptr_ of begin().
VisitedBegin(ns, child_ptr) ==
  IF child_ptr # Null /\ ns[child_ptr].n_ = 0
    THEN VisitedIncrement(ns, child_ptr)
    ELSE child_ptr

\* for (Node* child : VisitedNodes()): the Nodes yielded from node_ptr_ = p.
RECURSIVE VisitedFrom(_, _)
VisitedFrom(ns, p) ==
  IF p = Null THEN <<>> ELSE <<p>> \o VisitedFrom(ns, VisitedIncrement(ns, p))

InitVisited ==
  /\ nodes = [x \in NodeIds |->
                IF x = IterParent
                  THEN [NewNode(Null, 0) EXCEPT !.low_node_ = IterLow]
                  ELSE FreeNode]
  /\ lows = [l \in LowIds |->
               IF l = IterLow
                 THEN AddedParent(NewLowNode(MoveList(IterEdges)), 0)
                 ELSE FreeLowNode]
  /\ gamebegin_node_ = IterParent
  /\ current_head_ = IterParent
  /\ moves_ = <<>>
  /\ subtrees_to_gc_ = <<>>
  /\ stop_ = FALSE
  /\ gc = IdleGc
  /\ rs = IdleRs
  /\ iters = <<>>
  /\ thr = <<>>
  /\ aborted = "none"
  /\ last = Last("Init", Null, 0, Null)
  /\ acct = NoAcct

VisitedFrame == UNCHANGED <<treeVars, gcVars, rs, iters, thr>>

\* GetOrSpawnNode for edge i of the parent.
VisitedSpawn(i) == SearchSpawn(IterParent, i)

\* TryStartScoreUpdate on a child.
VisitedTryStart(x) ==
  /\ x \in LiveNodes \ {IterParent}
  /\ acct.started < MaxVisitedStarts
  /\ TryStartScoreUpdate(x)
  /\ acct' = [acct EXCEPT !.started = @ + 1]
  /\ VisitedFrame

\* FinalizeScoreUpdate(v, d, m, 1) on a child with a visit in flight.
VisitedFinalize(x) ==
  /\ x \in LiveNodes \ {IterParent}
  /\ nodes[x].n_in_flight_ >= 1
  /\ \E e \in Evals : FinalizeScoreUpdate(x, e, 1)
  /\ UNCHANGED acct
  /\ VisitedFrame

\* CancelScoreUpdate(1) on a child with a visit in flight.
VisitedCancel(x) ==
  /\ x \in LiveNodes \ {IterParent}
  /\ nodes[x].n_in_flight_ >= 1
  /\ CancelScoreUpdate(x, 1)
  /\ UNCHANGED acct
  /\ VisitedFrame

\* for (Node* child : parent.VisitedNodes()) (node.h:819-824).
VisitedIterate ==
  /\ aborted = "none"
  /\ \E ch \in {ChildList(nodes, lows, IterLow)} :
       \E y \in {VisitedFrom(nodes, VisitedBegin(nodes, lows[IterLow].child_))} :
         last' = Last("VisitedNodes",
                      [j \in 1..Len(ch) |-> <<nodes[ch[j]].n_, nodes[ch[j]].n_in_flight_>>],
                      Len(ch),
                      [j \in 1..Len(y) |-> IndexIn(ch, y[j])])
  /\ UNCHANGED <<nodes, lows, aborted, acct>>
  /\ VisitedFrame

NextVisited ==
  \/ \E i \in 0..(IterEdges - 1) : VisitedSpawn(i)
  \/ \E x \in NodeIds : VisitedTryStart(x)
  \/ \E x \in NodeIds : VisitedFinalize(x)
  \/ \E x \in NodeIds : VisitedCancel(x)
  \/ VisitedIterate

SpecVisited == InitVisited /\ [][NextVisited]_vars

\* Child j of the iterated list had no visit, finished or in flight.
Untouched(j) == last.x[j] = <<0, 0>>

\* C32 (VisitedNodes).  The iteration yields Nodes with n > 0 only, in
\* list order: the children with n > 0 that stand before the first child,
\* after the first one, that has n = 0 and n_in_flight = 0.  The first
\* child is skipped when it has n = 0, whatever its n_in_flight, and does
\* not end the iteration.
C32_VisitedUpToUntouched ==
  last.op = "VisitedNodes" =>
    /\ \A j \in DOMAIN last.ret : last.x[last.ret[j]][1] > 0
    /\ \A i, j \in DOMAIN last.ret : i < j => last.ret[i] < last.ret[j]
    /\ Range(last.ret) = {j \in 1..last.k : /\ last.x[j][1] > 0
                                            /\ \A i \in 2..(j - 1) : ~Untouched(i)}

\* The first child has no visit, finished or in flight, and the second
\* child, which has a visit, is yielded.
C32_Witness ==
  /\ last.op = "VisitedNodes"
  /\ last.k = 3
  /\ Untouched(1)
  /\ 2 \in Range(last.ret)

\* C32 as stated: only Nodes with n > 0 are yielded, and none that stands
\* after a child with n = 0 and n_in_flight = 0, the first child included.
C32_AsStated ==
  last.op = "VisitedNodes" =>
    /\ \A j \in DOMAIN last.ret : last.x[last.ret[j]][1] > 0
    /\ \A i \in 1..last.k, j \in Range(last.ret) : Untouched(i) => j < i


\* ------------------------------------------------------------------------
\* LowNode::MakeNotTerminal without visited children (SpecRevert)
\* ------------------------------------------------------------------------

\* A step that is the call LowNode::MakeNotTerminal on the terminal LowNode
\* of the root, which has edges, while no child has n > 0.
BareRevertStep ==
  /\ CallStep("LowNode::MakeNotTerminal")
  /\ IsTerminal(lows[RevLow])
  /\ Len(lows[RevLow].edges_) > 0
  /\ VisitedChildren(RevLow) = {}

\* C33 (no visited children: zeros).  LowNode::MakeNotTerminal on a
\* terminal LowNode with edges and no child with n > 0 leaves n = 0 and
\* wl = d = m = 0: no value is the result of a division by n = 0.
C33_BareRevertLeavesZeros ==
  [][BareRevertStep =>
       /\ ~IsTerminal(lows'[RevLow])
       /\ lows'[RevLow].n_ = 0
       /\ lows'[RevLow].wl_ = RInt(0)
       /\ lows'[RevLow].d_ = RInt(0)
       /\ lows'[RevLow].m_ = RInt(0)]_vars


\* ------------------------------------------------------------------------
\* SpecBounds: MakeTerminal, MakeNotTerminal and SetBounds on the LowNode
\* of the root, between the visits of its children.
\* ------------------------------------------------------------------------

\* The bounds a caller gives: lower <= upper in the order BLACK_WON < DRAW
\* < WHITE_WON.
BoundPairs ==
  {<<"BLACK_WON", "BLACK_WON">>, <<"BLACK_WON", "DRAW">>, <<"BLACK_WON", "WHITE_WON">>,
   <<"DRAW", "DRAW">>, <<"DRAW", "WHITE_WON">>, <<"WHITE_WON", "WHITE_WON">>}

\* LowNode::SetBounds(lower, upper) on the LowNode of the root.
BoundsSet(b) ==
  /\ RevCall
  /\ lows' = [lows EXCEPT ![RevLow] = LowSetBounds(@, b[1], b[2])]
  /\ last' = Last("LowNode::SetBounds", RevLow, b, IsTerminal(lows[RevLow]))
  /\ UNCHANGED nodes
  /\ RevFrame

NextBounds ==
  \/ \E i \in 0..(MaxEdges - 1) : RevSpawn(i)
  \/ \E x \in NodeIds, e \in RevEvals : RevVisit(x, e)
  \/ \E kind \in TerminalArgs : RevLowMakeTerminal(kind)
  \/ RevLowMakeNotTerminal
  \/ \E b \in BoundPairs : BoundsSet(b)

SpecBounds == InitRevert /\ [][NextBounds]_vars

\* (I5) on a LowNode.
TerminalBoundsMeet(lw) ==
  (IsTerminal(lw) /\ lw.terminal_type_ # "TwoFold") => lw.lower_bound_ = lw.upper_bound_

\* A step that is the call of SetBounds on a terminal LowNode.
SetBoundsOnTerminal == CallStep("LowNode::SetBounds") /\ IsTerminal(lows[RevLow])

\* C34 (I5 under MakeTerminal, MakeNotTerminal, SetBounds).  MakeTerminal
\* with a type other than TwoFold leaves lower bound = upper bound = the
\* result, MakeTerminal with type TwoFold leaves both bounds as they were,
\* SetBounds leaves the bounds it is given; so a terminal LowNode of a type
\* other than TwoFold has equal bounds after every call but a SetBounds,
\* with different bounds, on a terminal LowNode.
C34_BoundsMeetUnlessSet ==
  [][/\ (TerminalBoundsMeet(lows[RevLow]) /\ ~SetBoundsOnTerminal) =>
           TerminalBoundsMeet(lows'[RevLow])
     /\ (CallStep("LowNode::MakeTerminal") /\ last'.k[2] # "TwoFold") =>
           /\ lows'[RevLow].lower_bound_ = last'.k[1]
           /\ lows'[RevLow].upper_bound_ = last'.k[1]
     /\ (CallStep("LowNode::MakeTerminal") /\ last'.k[2] = "TwoFold") =>
           /\ lows'[RevLow].lower_bound_ = lows[RevLow].lower_bound_
           /\ lows'[RevLow].upper_bound_ = lows[RevLow].upper_bound_
     /\ CallStep("LowNode::SetBounds") =>
           /\ lows'[RevLow].lower_bound_ = last'.k[1]
           /\ lows'[RevLow].upper_bound_ = last'.k[2]
           /\ lows'[RevLow].terminal_type_ = lows[RevLow].terminal_type_]_vars

\* MakeTerminal with type TwoFold has left the bounds (DRAW, WHITE_WON)
\* that a SetBounds before it had set.
C34_Witness ==
  /\ last.op = "LowNode::MakeTerminal"
  /\ last.k[2] = "TwoFold"
  /\ lows[RevLow].terminal_type_ = "TwoFold"
  /\ lows[RevLow].lower_bound_ = "DRAW"
  /\ lows[RevLow].upper_bound_ = "WHITE_WON"

\* C34 as stated: in every state a terminal LowNode of a type other than
\* TwoFold has lower bound = upper bound.
C34_AsStated == TerminalBoundsMeet(lows[RevLow])


\* ------------------------------------------------------------------------
\* n_in_flight underflow (SpecGate)
\* ------------------------------------------------------------------------

\* A step that is a call of CancelScoreUpdate or FinalizeScoreUpdate with a
\* multivisit above the n_in_flight of the Node.
UnderflowStep ==
  /\ last'.op \in {"CancelScoreUpdate", "FinalizeScoreUpdate"}
  /\ last'.k > GateNode.n_in_flight_

\* C35 (n_in_flight never underflows).  CancelScoreUpdate(k) and
\* FinalizeScoreUpdate(v, d, m, k) with k > n_in_flight end in an assertion
\* failure, with n_in_flight as it was; in every state n_in_flight is at
\* least 0 and at most the visits started.
C35_NoUnderflow ==
  /\ [][UnderflowStep =>
          /\ aborted' # "none"
          /\ GateNode'.n_in_flight_ = GateNode.n_in_flight_]_vars
  /\ [](/\ GateNode.n_in_flight_ >= 0
        /\ GateNode.n_in_flight_ <= acct.started)

\* FinalizeScoreUpdate(v, d, m, 2) has been called with one visit in
\* flight and has failed its assertion.
C35_Witness ==
  /\ last.op = "FinalizeScoreUpdate"
  /\ last.k = 2
  /\ GateNode.n_in_flight_ = 1
  /\ aborted # "none"


\* ------------------------------------------------------------------------
\* SpecAttach: Node::SetLowNode on the root, which holds a LowNode, and on
\* its children, with visits in flight on them.  last holds the call: the
\* Node (x), the LowNode (k) and the n_in_flight of the Node (ret).
\* ------------------------------------------------------------------------
MaxAttachCalls == 3

AttachFrame == UNCHANGED <<treeVars, gcVars, rs, iters, thr>>

\* GetOrSpawnNode for edge i of the root.
AttachSpawn(i) == SearchSpawn(RevRoot, i) /\ aborted = "none"

\* x.IncrementNInFlight(k)
AttachIncrement(x, k) ==
  /\ acct.started + k <= MaxFlightVisits
  /\ IncrementNInFlight(x, k)
  /\ acct' = [acct EXCEPT !.started = @ + k]
  /\ AttachFrame

\* void Node::SetLowNode(std::shared_ptr<LowNode> low_node) on Node x; l is
\* a LowNode other Nodes hold, or a new one (a free l).
SetLowNode(x, l) ==
  /\ aborted = "none"
  /\ x \in LiveNodes
  /\ acct.calls < MaxAttachCalls
  /\ l \in LiveLows \/ l = Lowest(FreeLowIds(lows) \cup {MaxLows + 1})
  /\ l \in LiveLows => lows[l].num_parents_ < MaxParents
  /\ IF nodes[x].low_node_ # Null
       THEN /\ aborted' = "SetLowNode: !low_node_"
            /\ UNCHANGED <<nodes, lows>>
       ELSE /\ \E h \in {SetLowNodeHeap(
                           nodes,
                           IF l \in LiveLows THEN lows
                           ELSE [lows EXCEPT ![l] = NewLowNode(MoveList(1))],
                           x, l)} :
                 nodes' = h.n /\ lows' = h.l
            /\ UNCHANGED aborted
  /\ acct' = [acct EXCEPT !.calls = @ + 1]
  /\ last' = Last("SetLowNode", x, l, nodes[x].n_in_flight_)
  /\ AttachFrame

NextAttach ==
  \/ \E i \in 0..(MaxEdges - 1) : AttachSpawn(i)
  \/ \E x \in NodeIds, k \in Multivisits : AttachIncrement(x, k)
  \/ \E x \in NodeIds, l \in LowIds : SetLowNode(x, l)

SpecAttach == InitFlight /\ [][NextAttach]_vars

\* The parents and the visits in flight of LowNode l, 0 for a new one.
ParentsBefore(l) == IF lows[l].live THEN lows[l].num_parents_ ELSE 0
InFlightBefore(l) == IF lows[l].live THEN lows[l].n_in_flight_ ELSE 0

\* C36 (SetLowNode).  On a Node without LowNode the call attaches the
\* LowNode, adds exactly 1 to its num_parents and the n_in_flight of the
\* Node to its n_in_flight, and changes no other LowNode; on a Node that
\* holds a LowNode the call ends in an assertion failure and changes no
\* Node and no LowNode.
C36_SetLowNodeAddsParent ==
  [][CallStep("SetLowNode") =>
       /\ nodes[last'.x].low_node_ = Null =>
            /\ aborted' = "none"
            /\ nodes'[last'.x] = [nodes[last'.x] EXCEPT !.low_node_ = last'.k]
            /\ lows'[last'.k].live
            /\ lows'[last'.k].num_parents_ = ParentsBefore(last'.k) + 1
            /\ lows'[last'.k].n_in_flight_ =
                 InFlightBefore(last'.k) + nodes[last'.x].n_in_flight_
            /\ \A l \in LowIds \ {last'.k} : lows'[l] = lows[l]
       /\ nodes[last'.x].low_node_ # Null =>
            /\ aborted' # "none"
            /\ nodes' = nodes
            /\ lows' = lows]_vars

\* SetLowNode has attached a LowNode that another Node holds to a Node
\* with visits in flight.
C36_Witness ==
  /\ last.op = "SetLowNode"
  /\ aborted = "none"
  /\ last.ret > 0
  /\ nodes[last.x].low_node_ = last.k
  /\ lows[last.k].num_parents_ = 2
  /\ lows[last.k].n_in_flight_ >= last.ret


\* ------------------------------------------------------------------------
\* The head after MakeMove (SpecTree)
\* ------------------------------------------------------------------------

\* The end of ResetToPosition.
ResetEndStep == rs.pc = "replay" /\ rs'.pc = "idle"

\* The head of the next state is the only child of LowNode l.
OnlyChild(l) ==
  /\ l # Null
  /\ lows'[l].live
  /\ nodes'[current_head_'].parent_ = l
  /\ nodes'[current_head_'].sibling_ = Null
  /\ ChildList(nodes', lows', l) = <<current_head_'>>

\* C37 (the head is an only child).  After every MakeMove that returns the
\* new head has no sibling and is the only child of the LowNode of the old
\* head, which is its parent; when ResetToPosition ends after one move or
\* more, the head has no sibling and is the only child of its parent.
C37_HeadIsOnlyChild ==
  [][/\ (MakeMoveStep /\ aborted' = "none") =>
          OnlyChild(nodes'[current_head_].low_node_)
     /\ ResetEndStep =>
          /\ nodes'[current_head_'].sibling_ = Null
          /\ moves_ # <<>> => OnlyChild(nodes[current_head_].parent_)]_vars

\* ResetToPosition has ended two moves below the game begin, the head has
\* no sibling, and a Node that was its sibling is in the queue.
C37_Witness ==
  /\ rs.pc = "idle"
  /\ Len(moves_) = 2
  /\ nodes[current_head_].sibling_ = Null
  /\ \E x \in Range(subtrees_to_gc_) :
       /\ nodes[x].parent_ = nodes[current_head_].parent_
       /\ nodes[x].index_ # nodes[current_head_].index_


\* ------------------------------------------------------------------------
\* Where current_head_ points (SpecTree)
\* ------------------------------------------------------------------------

\* The Nodes k child links below Node g.
RECURSIVE Level(_, _, _, _)
Level(ns, ls, g, k) ==
  IF g = Null THEN {}
  ELSE IF k = 0 THEN {g}
  ELSE UNION {Range(ChildList(ns, ls, ns[x].low_node_)) : x \in Level(ns, ls, g, k - 1)}

\* current_head_ points at a Node of the live tree.
HeadInTree ==
  /\ nodes[current_head_].live
  /\ current_head_ \in LiveTree(nodes, lows, gamebegin_node_)

\* C38 as stated: current_head_ is null or points at a Node of the live
\* tree, never at a Node owned by an entry of the queue or by the entry the
\* worker holds.
C38_AsStated ==
  current_head_ # Null =>
    /\ HeadInTree
    /\ current_head_ \notin CollectorOwned(nodes, lows, subtrees_to_gc_, gc)

\* The Nodes that die if the collector destroys every entry it owns now.
CollectorDoomed ==
  Doomed(nodes, lows, Range(subtrees_to_gc_) \cup ({gc.node_to_gc} \ {Null}), {}).n

\* C38 (current_head_, with transpositions).  current_head_ is null or
\* points at a Node of the live tree, which is alive and which the
\* collector does not destroy by destroying what it owns: the head is
\* owned by an entry of the collector only below a LowNode that a Node of
\* the live tree holds as well.  When ResetToPosition(moves) ends the head
\* is len(moves) child links below the game begin, and no fewer.
C38_HeadInLiveTree ==
  /\ [](current_head_ # Null =>
          /\ HeadInTree
          /\ current_head_ \notin CollectorDoomed
          /\ current_head_ \in CollectorOwned(nodes, lows, subtrees_to_gc_, gc) =>
               \E l \in LiveLows :
                 /\ current_head_ \in Owned(nodes, lows, {lows[l].child_} \ {Null})
                 /\ Holders(nodes, l) \cap LiveTree(nodes, lows, gamebegin_node_) # {})
  /\ [][ResetEndStep =>
          /\ current_head_' \in Level(nodes', lows', gamebegin_node_', Len(moves_'))
          /\ \A k \in 0..(Len(moves_') - 1) :
               current_head_' \notin Level(nodes', lows', gamebegin_node_', k)]_vars

\* ResetToPosition has ended one move or more below the game begin, on a
\* head that lies below a LowNode held by the live tree and by a Node the
\* collector owns.
C38_Witness ==
  /\ rs.pc = "idle"
  /\ Len(moves_) >= 1
  /\ HeadInTree
  /\ current_head_ \in Level(nodes, lows, gamebegin_node_, Len(moves_))
  /\ current_head_ \in CollectorOwned(nodes, lows, subtrees_to_gc_, gc)
  /\ current_head_ \notin CollectorDoomed



\* ------------------------------------------------------------------------
\* SpecAnyMove: the search extends the tree and the engine makes moves,
\* whether the head has an edge for the move or not.  last holds the call
\* of MakeMove: the move (x), whether the head held a LowNode (k) and
\* whether an edge of the head matched the move (ret).
\* ------------------------------------------------------------------------

\* void NodeTree::MakeMove(Move move) (node.cc:566-587), called by the
\* engine with any move.
AnyMakeMove(move) ==
  /\ MainIdle
  /\ current_head_ # Null
  /\ gc.gc_mutex_ = "free"
  /\ Len(moves_) < MaxMoves
  /\ CanAllocate(nodes, lows, MakeMoveNeeds(nodes, lows, current_head_, move))
  /\ \E w \in {MakeMoveW(nodes, lows, subtrees_to_gc_, current_head_, move)} :
        /\ nodes' = w.n /\ lows' = w.l /\ subtrees_to_gc_' = w.q
        /\ current_head_' = w.head
        /\ aborted' = w.ab
  /\ moves_' = Append(moves_, move)
  /\ last' = Last("MakeMove", move, nodes[current_head_].low_node_ # Null,
                  FindEdge(nodes, lows, Edges(nodes, lows, current_head_), move).has_edge)
  /\ UNCHANGED <<gamebegin_node_, stop_, gc, rs>>
  /\ TreeFrame

NextAnyMove ==
  \/ \E x \in NodeIds, e \in 0..MaxEdges : SearchSetLowNode(x, e)
  \/ \E x \in NodeIds, i \in 0..(MaxEdges - 1) : SearchSpawn(x, i)
  \/ \E move \in Moves : AnyMakeMove(move)

SpecAnyMove == InitStats /\ [][NextAnyMove]_vars

\* C39 (CreateSingleChildNode only without LowNode).  MakeMove reaches
\* CreateSingleChildNode only on a head without LowNode: no MakeMove ends
\* in the failure of the assertion of CreateSingleChildNode, whatever the
\* move.
C39_SingleChildOnlyWithoutLowNode ==
  aborted # "CreateSingleChildNode: !low_node_"


\* ------------------------------------------------------------------------
\* SpecCount: as SpecBackup on the LowNode of the root, and the search
\* reads GetChildrenVisits() of the LowNode.  last holds the call: the n
\* of the LowNode (k) and the value returned, as 16-bit halves (ret).
\* ------------------------------------------------------------------------

\* uint32_t LowNode::GetChildrenVisits() const { return n_ - 1; }
GetChildrenVisits(lw) == Sub32(U32(lw.n_), U32(1))

\* The search reads the children's visits of the LowNode of the root.
CountChildrenVisits ==
  /\ aborted = "none"
  /\ last' = Last("GetChildrenVisits", RevLow, lows[RevLow].n_,
                  GetChildrenVisits(lows[RevLow]))
  /\ UNCHANGED <<nodes, lows, acct>>
  /\ RevFrame

NextCount ==
  \/ \E i \in 0..(MaxEdges - 1) : BackupSpawn(i)
  \/ \E x \in NodeIds, e \in RevEvals : BackupVisit(x, e)
  \/ \E e \in RevEvals : BackupLowVisit(e)
  \/ \E kind \in TerminalArgs : RevLowMakeTerminal(kind)
  \/ RevLowMakeNotTerminal
  \/ CountChildrenVisits

SpecCount == InitBackup /\ [][NextCount]_vars

\* C40 (GetChildrenVisits never wraps).  Whenever GetChildrenVisits is
\* called on the LowNode, the LowNode has n >= 1 and the value returned is
\* n - 1, not 2^32 - 1.
C40_ChildrenVisitsNeverWraps ==
  last.op = "GetChildrenVisits" =>
    /\ last.k >= 1
    /\ last.ret = U32(last.k - 1)
    /\ last.ret # <<Half - 1, Half - 1>>

=============================================================================
